---- MODULE Spec2Model ----
\* Batched level-wise decision-tree builder (ML::DecisionTree::Builder) with
\* the Gini objective: the host driver (workspaceSize, assignWorkspace,
\* train, init, doSplit, computeSplit, isOver, updateNodeRange) and the
\* GiniObjectiveFunction are translated from the sources; the device kernels
\* (computeSplitKernel, nodeSplitKernel), initSplit, Split::update and
\* Node::initSpNode live in headers that are not part of the sources at hand
\* (kernels.cuh, split.cuh, node.cuh) and are modelled from the
\* specification document.
\*
\* Real numbers (DataT) are exact rationals [num, den] with den > 0;
\* floating-point rounding is not modelled.
EXTENDS Integers, Sequences, FiniteSets, TLC

\* ---------------------------------------------------------------- bounds
\* largest number of sampled rows of a training set
MaxRows == 8

\* ---------------------------------------------------- program constants
\* NumericLimits<DataT>::kMax, the finite stand-in for infinity.  The model
\* uses a magnitude far above every reachable gain (|gain| <= 1) that keeps
\* the cross-multiplications inside TLC's integers.
KMax == 100000
\* initial value of the member n_blks_for_cols
DefaultBlksForCols == 10
\* Builder::alignValue
AlignValue == 512
\* sizeof of the types the workspace holds (IdxT = BinT = int, DataT = float)
SizeofInt == 4
SizeofIdxT == 4
SizeofBinT == 4
SizeofSplitT == 16
SizeofNodeT == 36

\* ------------------------------------------------------------- rationals
Rat(n, d) == [num |-> n, den |-> d]
RatLt(a, b) == a.num * b.den < b.num * a.den
RatLeq(a, b) == a.num * b.den <= b.num * a.den
RatEq(a, b) == a.num * b.den = b.num * a.den
NegInf == Rat(-KMax, 1)

\* float -> IdxT: the implicit conversion truncates toward zero
DataToIdx(r) == IF r.num >= 0 THEN r.num \div r.den ELSE -((-r.num) \div r.den)
\* IdxT -> DataT: exact for the small integers of the model
IdxToData(i) == Rat(i, 1)

Min(a, b) == IF a < b THEN a ELSE b
Max(a, b) == IF a > b THEN a ELSE b

RECURSIVE Pow2(_)
Pow2(n) == IF n <= 0 THEN 1 ELSE 2 * Pow2(n - 1)

RECURSIVE SumTo(_, _)
\* sum of f[0] .. f[n-1]
SumTo(f, n) == IF n <= 0 THEN 0 ELSE f[n - 1] + SumTo(f, n - 1)

\* ------------------------------------------------------------ input data
\* The training matrix is quantized: column c of row r holds the integer
\* (r / 2^c) mod 2 and the quantile edge of bin b is b for every column, so
\* a row falls left of bin b exactly when its value is <= b.
DataAt(r, c) == (r \div Pow2(c)) % 2
Quantile(b, c) == b
\* labels are the bits of a label pattern
LabelAt(pattern, r) == (pattern \div Pow2(r)) % 2

\* label patterns: constant; label = column 1; a pattern on which columns 0
\* and 1 tie at the root and both children split again
LabelPatterns == {0, 204, 110, 238}
RowChoices == {2, MaxRows - 2, MaxRows}
ColChoices == {1, 2}
DepthChoices == {0, 1, 2}
LeavesChoices == {-1, 1, 2}
BatchChoices == {1, 2}
\* a batch size whose histogram does not fit one aligned unit
LargeBatch == 11
\* <<min_samples_split, min_samples_leaf>>
SampleChoices == {<<2, 1>>, <<2, 3>>, <<3, 1>>}
ImpurityChoices == {Rat(0, 1), Rat(1, 8), Rat(3, 2)}
BinChoices == {2}
ClassChoices == {2}
\* what a misconfigured call gets wrong
FaultChoices == {"row_major", "null_quantiles", "no_classes", "no_bins",
                 "unknown_criterion"}

\* ------------------------------------------------------- Node and Split
\* a value-initialised Node (std::vector::resize)
DefaultNode ==
  [start |-> 0, count |-> 0, depth |-> 0, split_feature |-> 0,
   split_threshold |-> 0, gain |-> Rat(0, 1), left_child_id |-> 0,
   is_leaf |-> FALSE, unique_id |-> 0]

InitSpNode(n) ==
  [n EXCEPT !.is_leaf = FALSE, !.split_feature = -1, !.left_child_id = -1]

\* the "no split" sentinel written by initSplit and by Split's constructor
SentinelSplit == [threshold |-> 0, column |-> -1, gain |-> NegInf, nLeft |-> 0]

\* other is strictly better than cur: larger gain, then smaller column, then
\* smaller threshold, then larger nLeft
SplitBetter(other, cur) ==
  \/ RatLt(cur.gain, other.gain)
  \/ /\ RatEq(cur.gain, other.gain)
     /\ \/ other.column < cur.column
        \/ /\ other.column = cur.column
           /\ \/ other.threshold < cur.threshold
              \/ /\ other.threshold = cur.threshold
                 /\ other.nLeft > cur.nLeft

SplitUpdate(cur, other) == IF SplitBetter(other, cur) THEN other ELSE cur

\* ------------------------------------------------------- Gini objective
\* GiniObjectiveFunction(DataT nclasses, IdxT min_impurity_decrease,
\*                       IdxT min_samples_leaf): the members keep their
\* declared types (IdxT nclasses, DataT min_impurity_decrease)
GiniObjectiveFunction(nclasses, min_impurity_decrease, min_samples_leaf) ==
  [nclasses |-> DataToIdx(nclasses),
   min_impurity_decrease |-> IdxToData(min_impurity_decrease),
   min_samples_leaf |-> min_samples_leaf]

\* one iteration of the bin loop of Gain: the candidate of bin i.  The gain
\* is the exact quotient here; what the rounding of DataT makes of it is
\* modelled by GiniGainF32
GiniCandidate(obj, shist, col, len, nbins, i) ==
  LET lval(j) == shist[2 * nbins * j + i]
      rval(j) == shist[2 * nbins * j + nbins + i]
      nLeft == SumTo([j \in 0..(obj.nclasses - 1) |-> lval(j)], obj.nclasses)
      nRight == len - nLeft
      term(j) == lval(j) * lval(j) * nRight * len
                 + rval(j) * rval(j) * nLeft * len
                 - (lval(j) + rval(j)) * (lval(j) + rval(j)) * nLeft * nRight
      raw == IF nLeft < obj.min_samples_leaf \/ nRight < obj.min_samples_leaf
             THEN NegInf
             ELSE Rat(SumTo([j \in 0..(obj.nclasses - 1) |-> term(j)],
                            obj.nclasses),
                      nLeft * nRight * len * len)
      gain == IF RatLeq(raw, obj.min_impurity_decrease) THEN NegInf ELSE raw
  IN [threshold |-> Quantile(i, col), column |-> col, gain |-> gain,
      nLeft |-> nLeft]

RECURSIVE GiniFold(_, _, _, _, _, _)
\* sp after the candidates of bins 0 .. n-1 went through sp.update
GiniFold(obj, shist, col, len, nbins, n) ==
  IF n <= 0 THEN SentinelSplit
  ELSE CHOOSE sp \in
         {SplitUpdate(prev, cand) :
            prev \in {GiniFold(obj, shist, col, len, nbins, n - 1)},
            cand \in {GiniCandidate(obj, shist, col, len, nbins, n - 1)}} :
         TRUE

GiniGain(obj, shist, col, len, nbins) ==
  GiniFold(obj, shist, col, len, nbins, nbins)

\* ------------------------------------------------------------------ state
VARIABLES
  ev_in,           \* the arguments of one objective evaluation
  ev_gain,         \* the gain the objective computed for them
  ev_obj,          \* the objective object the evaluation runs on
  grid,            \* search kernel: gridDim.x of the running launch
  sblk,            \* search kernel: position of each block <<node, y, x>>
  cand,            \* search kernel: the split the evaluating block of <<node, y>> holds
  held,            \* search kernel: the splits[node] a block read under the lock
  stream,          \* the operations enqueued on the cuda stream and not yet completed
  done_count,      \* device: arrival counter of each <<node, column>>
  mutex,           \* device: lock of each node's best split
  pc,              \* position of the caller / host thread
  request,         \* the arguments the harness was run with
  d_wsize,         \* device bytes workspaceSize reported to the caller
  h_wsize,         \* host bytes workspaceSize reported to the caller
  block_sync_size, \* Builder::block_sync_size
  wspace,          \* offsets in d_wspace of the pointers assignWorkspace bound
  enqueued,        \* work has been enqueued on the stream
  build,           \* 1 during the first build, 2 during the repeated one
  first_nodes,     \* the node sequence the first build returned
  batches,         \* history: <<node_start, node_end, h_total_nodes>> of each doSplit call
  params,          \* Builder::params
  input,           \* Builder::input (shape, nclasses, label pattern)
  rowids,          \* input.rowids, the device array of sampled row ids
  n_blks_for_cols, \* Builder::n_blks_for_cols
  maxNodes,        \* Builder::maxNodes
  nHistBins,       \* Builder::nHistBins
  hist,            \* device: class histograms of the running search kernel
  n_nodes,         \* device: nodes created in the current batch
  n_leaves,        \* device: leaves created so far
  n_depth,         \* device: max depth reached so far
  splits,          \* device: best split per node of the batch
  curr_nodes,      \* device: current batch of nodes
  next_nodes,      \* device: children created by the current batch
  h_n_nodes,       \* host copy of n_nodes
  h_total_nodes,   \* total number of nodes created so far
  node_start,      \* first node of the batch
  node_end,        \* one past the last node of the batch
  h_nodes,         \* the caller's std::vector of nodes
  new_nodes,       \* train: the value doSplit returned
  num_leaves,      \* train: output
  depth,           \* train: output
  c,               \* doSplit: column loop variable
  pending,         \* blocks <<node, y>> of the running search kernel still to evaluate
  blk              \* nodeSplitKernel: state of the block of each node of the batch

callerVars == <<build, first_nodes, request, d_wsize, h_wsize>>
cfgVars == <<params, input, n_blks_for_cols, maxNodes, nHistBins,
            block_sync_size>>
devVars == <<hist, n_nodes, n_leaves, n_depth, splits, curr_nodes,
            next_nodes>>
rangeVars == <<h_total_nodes, node_start, node_end>>
outVars == <<num_leaves, depth>>
evalVars == <<ev_in, ev_gain, ev_obj>>
kernelVars == <<grid, sblk, cand, held>>
syncVars == <<done_count, mutex>>
streamVars == <<stream>>
builderVars == <<done_count, mutex, pc, request, d_wsize, h_wsize, block_sync_size, wspace, enqueued,
                 build, first_nodes, batches, params, input, rowids,
                 n_blks_for_cols, maxNodes, nHistBins, hist, n_nodes, n_leaves,
                 n_depth, splits, curr_nodes, next_nodes, h_n_nodes, h_total_nodes,
                 node_start, node_end, h_nodes, new_nodes, num_leaves, depth, c,
                 pending, blk>>
vars == <<evalVars, kernelVars, streamVars, builderVars>>

\* memory that was allocated and not yet written holds a value that no
\* computation of the program produces
Uninit == -1 - KMax
UninitNode ==
  [start |-> Uninit, count |-> Uninit, depth |-> Uninit,
   split_feature |-> Uninit, split_threshold |-> Uninit,
   gain |-> Rat(Uninit, 1), left_child_id |-> Uninit, is_leaf |-> FALSE,
   unique_id |-> Uninit]
UninitSplit ==
  [threshold |-> Uninit, column |-> Uninit, gain |-> Rat(Uninit, 1),
   nLeft |-> Uninit]

\* a default-constructed DecisionTreeParams / Input before workspaceSize
NoParams ==
  [max_depth |-> 0, max_leaves |-> 0, max_batch_size |-> 0, n_bins |-> 0,
   min_samples_split |-> 0, min_samples_leaf |-> 0,
   min_impurity_decrease |-> Rat(0, 1), split_criterion |-> "GINI"]
NoInput ==
  [nSampledRows |-> 0, nSampledCols |-> 0, nclasses |-> 0, labels |-> 0,
   quantiles |-> "null"]
NoRequest ==
  [rowMajor |-> FALSE, quantiles |-> "null", nclasses |-> 0, n_bins |-> 0,
   split_criterion |-> "GINI"]
\* no objective evaluation is under way, no gain has been computed
NoEval == [kind |-> "none"]
NoGain == [s |-> 0, m |-> 0, e |-> 0]
\* no objective has been constructed
NoObjective == [nclasses |-> 0]
\* the pointers of a Builder before assignWorkspace
NoWorkspace ==
  [n_nodes |-> Uninit, hist |-> Uninit, done_count |-> Uninit,
   mutex |-> Uninit, block_sync |-> Uninit, n_leaves |-> Uninit,
   n_depth |-> Uninit, splits |-> Uninit, curr_nodes |-> Uninit,
   next_nodes |-> Uninit]

\* a Builder after construction
BuilderInit ==
  /\ pc = "new"
  /\ done_count = << >>
  /\ mutex = << >>
  /\ request = NoRequest
  /\ d_wsize = Uninit
  /\ h_wsize = Uninit
  /\ block_sync_size = Uninit
  /\ wspace = NoWorkspace
  /\ enqueued = FALSE
  /\ build = 1
  /\ first_nodes = << >>
  /\ batches = << >>
  /\ params = NoParams
  /\ input = NoInput
  /\ rowids = << >>
  /\ n_blks_for_cols = DefaultBlksForCols
  /\ maxNodes = 0
  /\ nHistBins = 0
  /\ hist = << >>
  /\ n_nodes = Uninit
  /\ n_leaves = Uninit
  /\ n_depth = Uninit
  /\ splits = << >>
  /\ curr_nodes = << >>
  /\ next_nodes = << >>
  /\ h_n_nodes = Uninit
  /\ h_total_nodes = 0
  /\ node_start = 0
  /\ node_end = 0
  /\ h_nodes = << >>
  /\ new_nodes = 0
  /\ num_leaves = 0
  /\ depth = 0
  /\ c = 0
  /\ pending = {}
  /\ blk = << >>

\* no search kernel is running
KernelIdle ==
  /\ grid = 0
  /\ sblk = << >>
  /\ cand = << >>
  /\ held = << >>

\* nothing is pending on the stream
StreamIdle == stream = << >>

Init ==
  /\ BuilderInit
  /\ KernelIdle
  /\ StreamIdle
  /\ ev_in = NoEval
  /\ ev_gain = NoGain
  /\ ev_obj = NoObjective

\* the sampler's row ids: rows 0 .. n-1 in order
SampledRows(n) == [k \in 1..n |-> k - 1]

\* --------------------------------------------------------- workspaceSize
MaxNodesFor(max_depth) ==
  IF max_depth < 13 THEN Pow2(max_depth + 1) - 1 ELSE 8191

\* raft::alignTo(actualSize, alignValue)
CalculateAlignedBytes(actualSize) ==
  ((actualSize + AlignValue - 1) \div AlignValue) * AlignValue

RECURSIVE SumSeq(_)
SumSeq(q) == IF q = << >> THEN 0 ELSE Head(q) + SumSeq(Tail(q))

\* lines 201-213: the aligned sizes workspaceSize adds to d_wsize, in order
DeviceTerms(max_batch, n_col_blks, nhist, bss) ==
  << CalculateAlignedBytes(SizeofIdxT),                          \* n_nodes
     CalculateAlignedBytes(SizeofBinT * nhist),                  \* hist
     CalculateAlignedBytes(SizeofInt * max_batch * n_col_blks),  \* done_count
     CalculateAlignedBytes(SizeofInt * max_batch),               \* mutex
     CalculateAlignedBytes(bss),                                 \* block_sync
     CalculateAlignedBytes(SizeofIdxT),                          \* n_leaves
     CalculateAlignedBytes(SizeofIdxT),                          \* n_depth
     CalculateAlignedBytes(SizeofSplitT * max_batch),            \* splits
     CalculateAlignedBytes(SizeofNodeT * max_batch),             \* curr_nodes
     CalculateAlignedBytes(SizeofNodeT * 2 * max_batch) >>       \* next_nodes

\* line 191
HistBins(max_batch, nbins, n_col_blks, nclasses) ==
  max_batch * (1 + nbins) * n_col_blks * nclasses

\* the ASSERT of line 173 throws before any member is written, the ASSERT of
\* line 187 after params, n_blks_for_cols and input (but quantiles) are set
WorkspaceSize(p, sampledRows, sampledCols, nclasses, labels, quantiles) ==
  /\ pc \in {"new", "sized"}
  /\ IF quantiles = "null"
     THEN /\ pc' = "failed"
          /\ UNCHANGED <<cfgVars, rowids, d_wsize, h_wsize>>
     ELSE /\ params' = p
          /\ n_blks_for_cols' = Min(sampledCols, n_blks_for_cols)
          /\ rowids' = SampledRows(sampledRows)
          /\ IF nclasses < 1
             THEN /\ input' = [nSampledRows |-> sampledRows,
                               nSampledCols |-> sampledCols,
                               nclasses |-> nclasses, labels |-> labels,
                               quantiles |-> input.quantiles]
                  /\ pc' = "failed"
                  /\ UNCHANGED <<nHistBins, maxNodes, block_sync_size,
                                 d_wsize, h_wsize>>
             ELSE /\ input' = [nSampledRows |-> sampledRows,
                               nSampledCols |-> sampledCols,
                               nclasses |-> nclasses, labels |-> labels,
                               quantiles |-> quantiles]
                  /\ nHistBins' = HistBins(p.max_batch_size, p.n_bins,
                                           n_blks_for_cols', nclasses)
                  /\ maxNodes' = MaxNodesFor(p.max_depth)
                  /\ block_sync_size' = 0
                  /\ d_wsize' = SumSeq(DeviceTerms(p.max_batch_size,
                                                   n_blks_for_cols',
                                                   nHistBins', 0))
                  /\ h_wsize' = CalculateAlignedBytes(SizeofIdxT)
                  /\ pc' = "sized"
  /\ UNCHANGED <<evalVars, streamVars, kernelVars, syncVars, build, first_nodes, wspace, enqueued, batches, devVars,
                 h_n_nodes, rangeVars, h_nodes, new_nodes, outVars, c,
                 pending, blk>>

\* ------------------------------------------------------- assignWorkspace
\* binds the device arrays into the caller's buffer: nothing is written
FreshArray(n, v) == [i \in 1..n |-> v]

\* assignWorkspace without the advance between n_leaves and n_depth
C20_AssignOffsetsMutant(max_batch, n_col_blks, nhist, bss) ==
  LET o_n_nodes == 0
      o_hist == o_n_nodes + CalculateAlignedBytes(SizeofIdxT)
      o_done_count == o_hist + CalculateAlignedBytes(SizeofBinT * nhist)
      o_mutex == o_done_count
                   + CalculateAlignedBytes(SizeofInt * max_batch * n_col_blks)
      o_block_sync == o_mutex + CalculateAlignedBytes(SizeofInt * max_batch)
      o_n_leaves == o_block_sync + CalculateAlignedBytes(bss)
      o_n_depth == o_n_leaves
      o_splits == o_n_depth + CalculateAlignedBytes(SizeofIdxT)
      o_curr_nodes == o_splits + CalculateAlignedBytes(SizeofSplitT * max_batch)
      o_next_nodes == o_curr_nodes
                        + CalculateAlignedBytes(SizeofNodeT * max_batch)
  IN [n_nodes |-> o_n_nodes, hist |-> o_hist, done_count |-> o_done_count,
      mutex |-> o_mutex, block_sync |-> o_block_sync, n_leaves |-> o_n_leaves,
      n_depth |-> o_n_depth, splits |-> o_splits, curr_nodes |-> o_curr_nodes,
      next_nodes |-> o_next_nodes]

\* lines 231-249: the offset of each pointer from the start of d_wspace
AssignOffsets(max_batch, n_col_blks, nhist, bss) ==
  LET o_n_nodes == 0
      o_hist == o_n_nodes + CalculateAlignedBytes(SizeofIdxT)
      o_done_count == o_hist + CalculateAlignedBytes(SizeofBinT * nhist)
      o_mutex == o_done_count
                   + CalculateAlignedBytes(SizeofInt * max_batch * n_col_blks)
      o_block_sync == o_mutex + CalculateAlignedBytes(SizeofInt * max_batch)
      o_n_leaves == o_block_sync + CalculateAlignedBytes(bss)
      o_n_depth == o_n_leaves + CalculateAlignedBytes(SizeofIdxT)
      o_splits == o_n_depth + CalculateAlignedBytes(SizeofIdxT)
      o_curr_nodes == o_splits + CalculateAlignedBytes(SizeofSplitT * max_batch)
      o_next_nodes == o_curr_nodes
                        + CalculateAlignedBytes(SizeofNodeT * max_batch)
  IN [n_nodes |-> o_n_nodes, hist |-> o_hist, done_count |-> o_done_count,
      mutex |-> o_mutex, block_sync |-> o_block_sync, n_leaves |-> o_n_leaves,
      n_depth |-> o_n_depth, splits |-> o_splits, curr_nodes |-> o_curr_nodes,
      next_nodes |-> o_next_nodes]

AssignWorkspace ==
  /\ pc = "sized"
  /\ wspace' = AssignOffsets(params.max_batch_size, n_blks_for_cols, nHistBins,
                             block_sync_size)
  /\ hist' = << >>
  /\ n_nodes' = Uninit
  /\ n_leaves' = Uninit
  /\ n_depth' = Uninit
  /\ splits' = FreshArray(params.max_batch_size, UninitSplit)
  /\ curr_nodes' = FreshArray(params.max_batch_size, UninitNode)
  /\ next_nodes' = FreshArray(2 * params.max_batch_size, UninitNode)
  /\ h_n_nodes' = Uninit
  /\ done_count' = FreshArray(params.max_batch_size * n_blks_for_cols, Uninit)
  /\ mutex' = FreshArray(params.max_batch_size, Uninit)
  /\ pc' = "assigned"
  /\ UNCHANGED <<evalVars, streamVars, kernelVars, callerVars, enqueued, batches, cfgVars, rowids, rangeVars,
                 h_nodes, new_nodes, outVars, c, pending, blk>>

\* ----------------------------------------------------------- train: init
RootNode ==
  [InitSpNode(DefaultNode) EXCEPT !.start = 0, !.count = input.nSampledRows,
                                  !.depth = 0, !.unique_id = 0]

\* cudaMemsetAsync(array, 0, ...) over the whole array
Zeroed(arr) == [i \in 1..Len(arr) |-> 0]

\* a memset of done_count that stops one entry short
C23_DoneCountMemsetMutant(arr) == [i \in 1..Len(arr) |-> IF i = Len(arr) THEN 1 ELSE 0]
\* a done_count that starts at one arrival per entry
C21_DoneCountMemsetMutant(arr) == [i \in 1..Len(arr) |-> 1]
\* the memset of done_count (lines 302-303)
DoneCountMemset(arr) == Zeroed(arr)

\* a mutex array that starts locked
C22_MutexMemsetMutant(arr) == [i \in 1..Len(arr) |-> 1]
\* the memset of mutex (line 304)
MutexMemset(arr) == Zeroed(arr)

TrainInit ==
  /\ pc = "assigned"
  /\ h_n_nodes' = 0
  /\ done_count' = DoneCountMemset(done_count)
  /\ mutex' = MutexMemset(mutex)
  /\ n_leaves' = 0
  /\ n_depth' = 0
  /\ node_start' = 0
  /\ node_end' = 1
  /\ h_total_nodes' = 1
  /\ h_nodes' = <<RootNode>>
  /\ batches' = << >>
  /\ enqueued' = TRUE
  /\ pc' = "split"
  /\ UNCHANGED <<evalVars, streamVars, kernelVars, callerVars, wspace, cfgVars, rowids, hist, n_nodes, splits,
                 curr_nodes, next_nodes, new_nodes, outVars, c, pending, blk>>

\* --------------------------------------------------------------- doSplit
BatchSize == node_end - node_start

\* raft::update_host / update_device of n elements of src to dst + offset
CopyTo(dst, offset, src, n) ==
  [i \in 1..Len(dst) |->
     IF offset < i /\ i <= offset + n THEN src[i - offset] ELSE dst[i]]

\* initSplit: the first n entries become the sentinel
InitSplit(arr, n) ==
  [i \in 1..Len(arr) |-> IF i <= n THEN SentinelSplit ELSE arr[i]]

\* lines 345-354: reset n_nodes, init the splits, copy the batch to the device
DoSplitBegin ==
  /\ pc = "split"
  /\ n_nodes' = 0
  /\ splits' = InitSplit(splits, BatchSize)
  /\ curr_nodes' = CopyTo(curr_nodes, 0,
                          SubSeq(h_nodes, node_start + 1, node_end), BatchSize)
  /\ c' = 0
  /\ batches' = Append(batches, <<node_start, node_end, h_total_nodes>>)
  /\ pc' = "cols"
  /\ UNCHANGED <<evalVars, streamVars, kernelVars, syncVars, callerVars, wspace, enqueued, cfgVars, rowids, hist, n_leaves, n_depth,
                 next_nodes, h_n_nodes, rangeVars, h_nodes, new_nodes, outVars,
                 pending, blk>>

\* ---------------------------------------------------------- computeSplit
\* the objective computeSplit constructs for the search kernel
ComputeSplitObjective ==
  GiniObjectiveFunction(IdxToData(input.nclasses),
                        DataToIdx(params.min_impurity_decrease),
                        params.min_samples_split)

\* number of columns of the launch that starts at column col
ColBlks(col) == Min(n_blks_for_cols, input.nSampledCols - col)

\* the column loop advancing one column too far
C7_ColumnStepMutant == n_blks_for_cols + 1

\* the step of the column loop of doSplit
ColumnStep == n_blks_for_cols

\* the class histogram of a node on one column, layout [class, side, bin]
Histogram(node, col) ==
  LET nbins == params.n_bins
  IN [k \in 0..(2 * nbins * input.nclasses - 1) |->
        LET j == k \div (2 * nbins)
            side == (k % (2 * nbins)) \div nbins
            i == k % nbins
        IN Cardinality(
             {q \in (node.start + 1)..(node.start + node.count) :
                /\ LabelAt(input.labels, rowids[q]) = j
                /\ (DataAt(rowids[q], col) <= Quantile(i, col)) <=> (side = 0)})]

\* one iteration of the column loop: the histogram is zeroed and the search
\* kernel is launched on the columns col .. col + colBlks - 1 for every node
\* of the batch; its blocks add their rows to the histogram (commutative
\* atomic adds of integers) before any block of a <<node, column>> evaluates
ComputeSplit ==
  /\ pc = "cols"
  /\ c < input.nSampledCols
  /\ pending' = {<<nid, y>> : nid \in 0..(BatchSize - 1),
                              y \in 0..(ColBlks(c) - 1)}
  /\ hist' = [b \in pending' |-> Histogram(curr_nodes[b[1] + 1], c + b[2])]
  /\ pc' = "search"
  /\ UNCHANGED <<evalVars, streamVars, kernelVars, syncVars, callerVars, wspace, enqueued, batches, cfgVars, rowids, n_nodes, n_leaves,
                 n_depth, splits, curr_nodes, next_nodes, h_n_nodes,
                 rangeVars, h_nodes, new_nodes, outVars, c, blk>>

\* the candidate the evaluating block of <<node, column>> proposes
Proposal(nid, y) ==
  GiniGain(ComputeSplitObjective, hist[<<nid, y>>], c + y,
           curr_nodes[nid + 1].count, params.n_bins)

\* the elected block of <<nid, y>> evaluates the objective and updates
\* splits[nid] under the node's mutex; the kernel ends with its last block
EvalBlock(nid, y) ==
  /\ pc = "search"
  /\ <<nid, y>> \in pending
  /\ \E sp \in {Proposal(nid, y)} :
       splits' = [splits EXCEPT ![nid + 1] = SplitUpdate(@, sp)]
  /\ pending' = pending \ {<<nid, y>>}
  /\ IF pending' = {}
     THEN c' = c + ColumnStep /\ pc' = "cols"
     ELSE UNCHANGED <<c, pc>>
  /\ UNCHANGED <<evalVars, streamVars, kernelVars, syncVars, callerVars, wspace, enqueued, batches, cfgVars, rowids, hist, n_nodes,
                 n_leaves, n_depth, curr_nodes, next_nodes, h_n_nodes,
                 rangeVars, h_nodes, new_nodes, outVars, blk>>

\* ------------------------------------------------------- nodeSplitKernel
\* the launch with min_samples_leaf and min_samples_split in each other's place
C11_NodeSplitArgsMutant ==
  [max_depth |-> params.max_depth,
   min_samples_leaf |-> params.min_samples_split,
   min_samples_split |-> params.min_samples_leaf,
   max_leaves |-> params.max_leaves,
   min_impurity_decrease |-> params.min_impurity_decrease,
   total_nodes |-> h_total_nodes]

\* the launch with max_depth and min_samples_leaf in each other's place
C3_NodeSplitArgsMutant ==
  [max_depth |-> params.min_samples_leaf,
   min_samples_leaf |-> params.max_depth,
   min_samples_split |-> params.min_samples_split,
   max_leaves |-> params.max_leaves,
   min_impurity_decrease |-> params.min_impurity_decrease,
   total_nodes |-> h_total_nodes]

\* the arguments of the launch (lines 362-366)
NodeSplitArgs ==
  [max_depth |-> params.max_depth,
   min_samples_leaf |-> params.min_samples_leaf,
   min_samples_split |-> params.min_samples_split,
   max_leaves |-> params.max_leaves,
   min_impurity_decrease |-> params.min_impurity_decrease,
   total_nodes |-> h_total_nodes]

LaunchNodeSplit ==
  /\ pc = "cols"
  /\ c >= input.nSampledCols
  /\ blk' = [i \in 1..BatchSize |-> "start"]
  /\ pc' = "nodesplit"
  /\ UNCHANGED <<evalVars, streamVars, kernelVars, syncVars, callerVars, wspace, enqueued, batches, cfgVars, rowids, devVars, h_n_nodes,
                 rangeVars, h_nodes, new_nodes, outVars, c, pending>>

\* a block reads the current leaf count for the max_leaves limit
NodeSplitRead(nid) ==
  /\ pc = "nodesplit"
  /\ blk[nid + 1] = "start"
  /\ blk' = [blk EXCEPT ![nid + 1] =
               IF NodeSplitArgs.max_leaves > 0
                  /\ n_leaves >= NodeSplitArgs.max_leaves
               THEN "cap" ELSE "nocap"]
  /\ UNCHANGED <<evalVars, streamVars, kernelVars, syncVars, pc, callerVars, wspace, enqueued, batches, cfgVars, rowids, devVars, h_n_nodes,
                 rangeVars, h_nodes, new_nodes, outVars, c, pending>>

\* the structural limits and the sentinel test of the split application
ForcedLeaf(a, node, split, capHit) ==
  \/ node.depth + 1 > a.max_depth
  \/ capHit
  \/ node.count < a.min_samples_split
  \/ node.count < 2 * a.min_samples_leaf
  \/ ~RatLt(NegInf, split.gain)

MakeLeaf(node) ==
  [node EXCEPT !.is_leaf = TRUE, !.split_feature = -1, !.left_child_id = -1]

MakeInternal(node, split, pos, total_nodes) ==
  [node EXCEPT !.split_feature = split.column,
               !.split_threshold = split.threshold,
               !.gain = split.gain,
               !.left_child_id = total_nodes + pos]

LeftChild(node, split) ==
  [InitSpNode(DefaultNode) EXCEPT !.start = node.start,
                                  !.count = split.nLeft,
                                  !.depth = node.depth + 1,
                                  !.unique_id = 2 * node.unique_id + 1]

RightChild(node, split) ==
  [InitSpNode(DefaultNode) EXCEPT !.start = node.start + split.nLeft,
                                  !.count = node.count - split.nLeft,
                                  !.depth = node.depth + 1,
                                  !.unique_id = 2 * node.unique_id + 2]

\* stable scatter of the node's slice of rowids: left rows first
Partition(ids, node, split) ==
  LET slice == SubSeq(ids, node.start + 1, node.start + node.count)
      goesLeft(r) == DataAt(r, split.column) <= split.threshold
      left == SelectSeq(slice, LAMBDA r : goesLeft(r))
      right == SelectSeq(slice, LAMBDA r : ~goesLeft(r))
  IN SubSeq(ids, 1, node.start) \o left \o right
       \o SubSeq(ids, node.start + node.count + 1, Len(ids))

\* the block of node nid makes it a leaf or emits its two children
NodeSplitApply(nid) ==
  /\ pc = "nodesplit"
  /\ blk[nid + 1] \in {"cap", "nocap"}
  /\ LET a == NodeSplitArgs
         node == curr_nodes[nid + 1]
         split == splits[nid + 1]
         pos == n_nodes
     IN IF ForcedLeaf(a, node, split, blk[nid + 1] = "cap")
        THEN /\ curr_nodes' = [curr_nodes EXCEPT ![nid + 1] = MakeLeaf(node)]
             /\ n_leaves' = n_leaves + 1
             /\ UNCHANGED <<n_nodes, n_depth, next_nodes, rowids>>
        ELSE /\ n_nodes' = n_nodes + 2
             /\ curr_nodes' = [curr_nodes EXCEPT ![nid + 1] =
                                 MakeInternal(node, split, pos, a.total_nodes)]
             /\ next_nodes' = [next_nodes EXCEPT
                                 ![pos + 1] = LeftChild(node, split),
                                 ![pos + 2] = RightChild(node, split)]
             /\ n_depth' = Max(n_depth, node.depth + 1)
             /\ rowids' = Partition(rowids, node, split)
             /\ UNCHANGED n_leaves
  /\ blk' = [blk EXCEPT ![nid + 1] = "done"]
  /\ UNCHANGED <<evalVars, streamVars, kernelVars, syncVars, pc, callerVars, wspace, enqueued, batches, cfgVars, hist, splits, h_n_nodes,
                 rangeVars, h_nodes, new_nodes, outVars, c, pending>>

\* lines 370-377: read n_nodes back, grow the vector, copy the batch and the
\* children to the host
\* the children copied behind the batch instead of behind the sequence
C2_ChildrenOffsetMutant == node_end
\* the children copied over the batch
C14_ChildrenOffsetMutant == node_start
\* the children copied one slot too far
C9_ChildrenOffsetMutant == h_total_nodes + 1
ChildrenOffset == h_total_nodes

\* a resize that leaves the vector as it is
C26_ResizedMutant(vec, n) == vec
\* h_nodes.resize(h_nodes.size() + n) (line 372)
Resized(vec, n) == vec \o [k \in 1..n |-> DefaultNode]

DoSplitFinish ==
  /\ pc = "nodesplit"
  /\ \A i \in 1..BatchSize : blk[i] = "done"
  /\ h_n_nodes' = n_nodes
  /\ h_nodes' = CopyTo(CopyTo(Resized(h_nodes, BatchSize + n_nodes),
                              node_start, curr_nodes, BatchSize),
                       ChildrenOffset, next_nodes, n_nodes)
  /\ new_nodes' = n_nodes
  /\ pc' = "ret"
  /\ UNCHANGED <<evalVars, streamVars, kernelVars, syncVars, callerVars, wspace, enqueued, batches, cfgVars, rowids, devVars, rangeVars,
                 outVars, c, pending, blk>>

\* ------------------------------------------------------ train: the loop
\* isOver that also holds while nodes are left
C1_IsOverMutant(nodeEnd, total) == nodeEnd <= total
IsOver(nodeEnd, total) == nodeEnd = total

\* updateNodeRange without the max_batch_size limit
C10_UpdateNodeRangeMutant(nodeEnd, total) ==
  [node_start |-> nodeEnd, node_end |-> total]
UpdateNodeRange(nodeEnd, total) ==
  [node_start |-> nodeEnd,
   node_end |-> Min(total - nodeEnd, params.max_batch_size) + nodeEnd]

\* the outputs with n_leaves and n_depth in each other's place
C12_TrainOutputsMutant == [num_leaves |-> n_depth, depth |-> n_leaves]
\* lines 275-276: the two update_host calls after the loop
TrainOutputs == [num_leaves |-> n_leaves, depth |-> n_depth]

\* lines 271-276: count the new nodes, then leave the loop or advance
TrainStep ==
  /\ pc = "ret"
  /\ h_total_nodes' = h_total_nodes + new_nodes
  /\ IF new_nodes = 0 /\ IsOver(node_end, h_total_nodes')
     THEN /\ num_leaves' = TrainOutputs.num_leaves
          /\ depth' = TrainOutputs.depth
          /\ pc' = "done"
          /\ UNCHANGED <<node_start, node_end>>
     ELSE /\ node_start' = UpdateNodeRange(node_end, h_total_nodes').node_start
          /\ node_end' = UpdateNodeRange(node_end, h_total_nodes').node_end
          /\ pc' = "split"
          /\ UNCHANGED outVars
  /\ UNCHANGED <<evalVars, streamVars, kernelVars, syncVars, callerVars, wspace, enqueued, batches, cfgVars, rowids, devVars, h_n_nodes,
                 h_nodes, new_nodes, c, pending, blk>>

\* the caller builds the same tree again: same input and seeds, the sampled
\* row ids as first given, a fresh workspace and an empty vector
Rebuild ==
  /\ pc = "done"
  /\ build = 1
  /\ build' = 2
  /\ first_nodes' = h_nodes
  /\ h_nodes' = << >>
  /\ rowids' = SampledRows(input.nSampledRows)
  /\ hist' = << >>
  /\ n_nodes' = Uninit
  /\ n_leaves' = Uninit
  /\ n_depth' = Uninit
  /\ splits' = FreshArray(params.max_batch_size, UninitSplit)
  /\ curr_nodes' = FreshArray(params.max_batch_size, UninitNode)
  /\ next_nodes' = FreshArray(2 * params.max_batch_size, UninitNode)
  /\ h_n_nodes' = Uninit
  /\ done_count' = FreshArray(params.max_batch_size * n_blks_for_cols, Uninit)
  /\ mutex' = FreshArray(params.max_batch_size, Uninit)
  /\ pc' = "assigned"
  /\ UNCHANGED <<evalVars, streamVars, kernelVars, request, d_wsize, h_wsize, wspace, enqueued, batches,
                 cfgVars, rangeVars, new_nodes, outVars, c, pending, blk>>

\* ------------------------------------------------------- specification
\* the tree parameters of the runs: every combination of the choices, and
\* one configuration with a large batch
ParamChoices ==
  [max_depth : DepthChoices, max_leaves : LeavesChoices,
   max_batch_size : BatchChoices, n_bins : BinChoices,
   min_samples_split : {sm[1] : sm \in SampleChoices},
   min_samples_leaf : {sm[2] : sm \in SampleChoices},
   min_impurity_decrease : ImpurityChoices, split_criterion : {"GINI"}]
SmallParams ==
  [max_depth |-> 1, max_leaves |-> -1, max_batch_size |-> 1, n_bins |-> 2,
   min_samples_split |-> 2, min_samples_leaf |-> 1,
   min_impurity_decrease |-> Rat(0, 1), split_criterion |-> "GINI"]

\* RunF::run: the ASSERT on the layout, then fit, which reaches workspaceSize
RunF(rowMajor, p, sampledRows, sampledCols, nclasses, labels, quantiles) ==
  /\ request' = [rowMajor |-> rowMajor, quantiles |-> quantiles,
                 nclasses |-> nclasses, n_bins |-> p.n_bins,
                 split_criterion |-> p.split_criterion]
  /\ IF rowMajor
     THEN /\ pc = "new"
          /\ pc' = "failed"
          /\ UNCHANGED <<evalVars, streamVars, kernelVars, syncVars, d_wsize, h_wsize, cfgVars, rowids, build, first_nodes,
                         wspace, enqueued, batches, devVars, h_n_nodes,
                         rangeVars, h_nodes, new_nodes, outVars, c, pending,
                         blk>>
     ELSE WorkspaceSize(p, sampledRows, sampledCols, nclasses, labels,
                        quantiles)

Configure ==
  /\ pc = "new"
  /\ \E p \in ParamChoices, rows \in RowChoices, cols \in ColChoices,
        ncls \in ClassChoices, pat \in LabelPatterns :
       /\ <<p.min_samples_split, p.min_samples_leaf>> \in SampleChoices
       /\ RunF(FALSE, p, rows, cols, ncls, pat % Pow2(rows), "set")

\* a run with the large batch
ConfigureLarge ==
  /\ pc = "new"
  /\ \E cols \in ColChoices :
       RunF(FALSE, [SmallParams EXCEPT !.max_batch_size = LargeBatch],
            2, cols, 2, 0, "set")

\* a run with one thing wrong
Misconfigure ==
  /\ pc = "new"
  /\ \E fault \in FaultChoices, cols \in ColChoices :
       RunF(fault = "row_major",
            [SmallParams EXCEPT
               !.n_bins = IF fault = "no_bins" THEN 0 ELSE @,
               !.split_criterion = IF fault = "unknown_criterion"
                                   THEN "CRITERION_END" ELSE @],
            2, cols, IF fault = "no_classes" THEN 0 ELSE 2, 0,
            IF fault = "null_quantiles" THEN "null" ELSE "set")

\* the caller asks for the size again, for another number of sampled columns
Reconfigure ==
  /\ pc = "sized"
  /\ UNCHANGED request
  /\ \E cols \in ColChoices :
       WorkspaceSize(params, input.nSampledRows, cols, input.nclasses,
                     input.labels, input.quantiles)

Search == \E nid \in 0..(BatchSize - 1), y \in 0..(n_blks_for_cols - 1) :
            EvalBlock(nid, y)

NodeSplit == \E nid \in 0..(BatchSize - 1) :
               NodeSplitRead(nid) \/ NodeSplitApply(nid)

Train ==
  \/ TrainInit
  \/ DoSplitBegin
  \/ ComputeSplit
  \/ Search
  \/ LaunchNodeSplit
  \/ NodeSplit
  \/ DoSplitFinish
  \/ TrainStep

Next ==
  \/ Configure
  \/ ConfigureLarge
  \/ Misconfigure
  \/ Reconfigure
  \/ AssignWorkspace
  \/ Train
  \/ Rebuild

Spec == Init /\ [][Next]_vars

\* the host thread runs and every launched block is scheduled
FairSpec == Spec /\ WF_vars(Train)

\* ===================================================== float arithmetic
\* DataT is float in the harness.  A float is sign * m * 2^e with m odd
\* (or 0) and below 2^24; every operation computes the exact result and
\* rounds it to nearest, ties to even, as IEEE-754 binary32 does.  The
\* exact results are naturals in limbs of 12 bits, least significant first.
\* Exponents stay far from the underflow and overflow range in what follows.
LimbBase == 4096
LimbBits == 12
MantBits == 24

RECURSIVE BigTrim(_)
BigTrim(a) ==
  IF a = << >> THEN a
  ELSE IF a[Len(a)] = 0 THEN BigTrim(SubSeq(a, 1, Len(a) - 1)) ELSE a

RECURSIVE BigFromInt(_)
BigFromInt(n) ==
  IF n = 0 THEN << >> ELSE <<n % LimbBase>> \o BigFromInt(n \div LimbBase)

RECURSIVE BigToInt(_)
BigToInt(a) ==
  IF a = << >> THEN 0 ELSE a[1] + LimbBase * BigToInt(Tail(a))

BigLimb(a, i) == IF i <= Len(a) THEN a[i] ELSE 0

RECURSIVE BigAddC(_, _, _, _)
BigAddC(a, b, i, carry) ==
  IF i > Max(Len(a), Len(b))
  THEN IF carry = 0 THEN << >> ELSE <<carry>>
  ELSE LET t == BigLimb(a, i) + BigLimb(b, i) + carry
       IN <<t % LimbBase>> \o BigAddC(a, b, i + 1, t \div LimbBase)
BigAdd(a, b) == BigAddC(a, b, 1, 0)

\* a - b for a >= b
RECURSIVE BigSubC(_, _, _, _)
BigSubC(a, b, i, borrow) ==
  IF i > Len(a) THEN << >>
  ELSE LET t == a[i] - BigLimb(b, i) - borrow
       IN IF t < 0 THEN <<t + LimbBase>> \o BigSubC(a, b, i + 1, 1)
          ELSE <<t>> \o BigSubC(a, b, i + 1, 0)
BigSub(a, b) == BigTrim(BigSubC(a, b, 1, 0))

RECURSIVE BigCmpAt(_, _, _)
BigCmpAt(a, b, i) ==
  IF i = 0 THEN 0
  ELSE IF a[i] < b[i] THEN -1
  ELSE IF a[i] > b[i] THEN 1
  ELSE BigCmpAt(a, b, i - 1)
\* -1, 0 or 1 as a is below, equal to or above b
BigCmp(a, b) ==
  IF Len(a) < Len(b) THEN -1
  ELSE IF Len(a) > Len(b) THEN 1
  ELSE BigCmpAt(a, b, Len(a))

\* a * k for one limb k
RECURSIVE BigMulLimb(_, _, _, _)
BigMulLimb(a, k, i, carry) ==
  IF i > Len(a)
  THEN IF carry = 0 THEN << >> ELSE <<carry>>
  ELSE LET t == a[i] * k + carry
       IN <<t % LimbBase>> \o BigMulLimb(a, k, i + 1, t \div LimbBase)

RECURSIVE BigMulAt(_, _, _)
BigMulAt(a, b, j) ==
  IF j > Len(b) THEN << >>
  ELSE BigAdd(BigMulLimb(a, b[j], 1, 0), <<0>> \o BigMulAt(a, b, j + 1))
BigMul(a, b) == BigTrim(BigMulAt(a, b, 1))

\* a * 2^n
BigShl(a, n) ==
  BigTrim([k \in 1..(n \div LimbBits) |-> 0]
            \o BigMulLimb(a, Pow2(n % LimbBits), 1, 0))

\* quotient and remainder of a by d, for d below 2^19
RECURSIVE BigDivAt(_, _, _, _)
BigDivAt(a, d, i, r) ==
  IF i = 0 THEN [q |-> << >>, r |-> r]
  ELSE LET cur == r * LimbBase + a[i]
           rest == BigDivAt(a, d, i - 1, cur % d)
       IN [q |-> rest.q \o <<cur \div d>>, r |-> rest.r]
BigDivSmall(a, d) ==
  LET res == BigDivAt(a, d, Len(a), 0)
  IN [q |-> BigTrim(res.q), r |-> res.r]

\* floor(a / 2^n), and whether a bit was shifted out
BigShr(a, n) ==
  LET limbs == Min(n \div LimbBits, Len(a))
      low == SubSeq(a, 1, limbs)
      high == SubSeq(a, limbs + 1, Len(a))
      res == BigDivSmall(high, Pow2(n % LimbBits))
  IN [q |-> res.q,
      sticky |-> res.r # 0 \/ \E k \in 1..limbs : low[k] # 0]

\* number of bits of n, taken off a limb, six bits or one bit at a time
RECURSIVE BitLen(_)
BitLen(n) ==
  IF n = 0 THEN 0
  ELSE IF n >= LimbBase THEN LimbBits + BitLen(n \div LimbBase)
  ELSE IF n >= 64 THEN 6 + BitLen(n \div 64)
  ELSE 1 + BitLen(n \div 2)
BigBitLen(a) ==
  IF a = << >> THEN 0 ELSE LimbBits * (Len(a) - 1) + BitLen(a[Len(a)])

F32Zero == [s |-> 1, m |-> 0, e |-> 0]
\* the float with the value sign * m * 2^e, for m below 2^24
RECURSIVE F32(_, _, _)
F32(s, m, e) ==
  IF m = 0 THEN F32Zero
  ELSE IF m % LimbBase = 0 THEN F32(s, m \div LimbBase, e + LimbBits)
  ELSE IF m % 64 = 0 THEN F32(s, m \div 64, e + 6)
  ELSE IF m % 2 = 0 THEN F32(s, m \div 2, e + 1)
  ELSE [s |-> s, m |-> m, e |-> e]

\* DataT(n) for an integer below 2^24 in magnitude
F32FromInt(n) == IF n < 0 THEN F32(-1, -n, 0) ELSE F32(1, n, 0)

\* the exact value sign * big * 2^e (plus less than one unit of big when
\* sticky) rounded to nearest, ties to even
F32Round(s, big, e, sticky) ==
  LET drop == BigBitLen(big) - MantBits
  IN IF drop <= 0 THEN F32(s, BigToInt(big), e)
     ELSE LET sh == BigShr(big, drop - 1)
              q == BigToInt(sh.q)
              m0 == q \div 2
              up == /\ q % 2 = 1
                    /\ (sh.sticky \/ sticky \/ m0 % 2 = 1)
          IN F32(s, IF up THEN m0 + 1 ELSE m0, e + drop)

F32Exact(a) == [s |-> a.s, big |-> BigFromInt(a.m), e |-> a.e]
ExactMul(x, y) ==
  [s |-> x.s * y.s, big |-> BigMul(x.big, y.big), e |-> x.e + y.e]
ExactAdd(x, y) ==
  LET e == Min(x.e, y.e)
      bx == BigShl(x.big, x.e - e)
      by == BigShl(y.big, y.e - e)
      cmp == BigCmp(bx, by)
  IN IF x.big = << >> THEN y
     ELSE IF y.big = << >> THEN x
     ELSE IF x.s = y.s THEN [s |-> x.s, big |-> BigAdd(bx, by), e |-> e]
     ELSE IF cmp = 0 THEN [s |-> 1, big |-> << >>, e |-> 0]
     ELSE IF cmp > 0 THEN [s |-> x.s, big |-> BigSub(bx, by), e |-> e]
     ELSE [s |-> y.s, big |-> BigSub(by, bx), e |-> e]
F32OfExact(x) == F32Round(x.s, x.big, x.e, FALSE)

F32Neg(a) == IF a.m = 0 THEN a ELSE [a EXCEPT !.s = -a.s]
F32Mul(a, b) == F32OfExact(ExactMul(F32Exact(a), F32Exact(b)))
F32Add(a, b) == F32OfExact(ExactAdd(F32Exact(a), F32Exact(b)))
F32Sub(a, b) == F32Add(a, F32Neg(b))
\* fmaf(a, b, acc): one rounding of a * b + acc
F32Fma(a, b, acc) ==
  F32OfExact(ExactAdd(ExactMul(F32Exact(a), F32Exact(b)), F32Exact(acc)))
\* a / b for a b whose odd part is below 2^19 (every divisor here is an
\* integer count converted to DataT)
F32Div(a, b) ==
  LET k == MantBits + 2 + BitLen(b.m)
      res == BigDivSmall(BigShl(BigFromInt(a.m), k), b.m)
  IN IF a.m = 0 THEN F32Zero
     ELSE F32Round(a.s * b.s, res.q, a.e - b.e - k, res.r # 0)
\* a <= b
F32Leq(a, b) ==
  LET d == ExactAdd(F32Exact(a), F32Exact(F32Neg(b)))
  IN d.big = << >> \/ d.s = -1

\* -NumericLimits<float>::kMax = -(2^24 - 1) * 2^104
NegFltMax == [s |-> -1, m |-> 16777215, e |-> 104]
\* a float product and sum as the build compiles it: fused or not
F32MulAdd(fused, a, b, acc) ==
  IF fused THEN F32Fma(a, b, acc) ELSE F32Add(acc, F32Mul(a, b))

\* ================================================ objectives in DataT
\* GiniObjectiveFunction::Gain, lines 245-259: the classes' terms of one
\* bin, lvals[j] and rvals[j] being shist[2*nbins*j + i] and
\* shist[2*nbins*j + nbins + i]
RECURSIVE GiniClassTerms(_, _, _, _, _, _, _, _)
GiniClassTerms(fused, lvals, rvals, invLeft, invRight, invlen, j, gain) ==
  IF j > Len(lvals) THEN gain
  ELSE LET lval == F32FromInt(lvals[j])
           rval == F32FromInt(rvals[j])
           val == F32Mul(F32FromInt(lvals[j] + rvals[j]), invlen)
       IN CHOOSE res \in
            {GiniClassTerms(fused, lvals, rvals, invLeft, invRight, invlen,
                            j + 1, g3) :
               g3 \in
                 {F32MulAdd(fused, F32Neg(val), val, g2) :
                    g2 \in
                      {F32MulAdd(fused, lr, invlen, g1) :
                         lr \in {F32Mul(F32Mul(rval, invRight), rval)},
                         g1 \in
                           {F32MulAdd(fused, ll, invlen, g0) :
                              ll \in {F32Mul(F32Mul(lval, invLeft), lval)},
                              g0 \in {gain}}}}} : TRUE

\* GiniObjectiveFunction::Gain, lines 231-264: the gain of one bin
GiniGainF32(fused, lvals, rvals, len, min_samples_leaf, min_impurity_decrease) ==
  LET One == F32FromInt(1)
      invlen == F32Div(One, F32FromInt(len))
      nLeft == SumSeq(lvals)
      nRight == len - nLeft
      gain == IF nLeft < min_samples_leaf \/ nRight < min_samples_leaf
              THEN NegFltMax
              ELSE GiniClassTerms(fused, lvals, rvals,
                                  F32Div(One, F32FromInt(nLeft)),
                                  F32Div(One, F32FromInt(nRight)),
                                  invlen, 1, F32Zero)
  IN IF F32Leq(gain, min_impurity_decrease) THEN NegFltMax ELSE gain

\* regressionMetricGain, lines 342-361: the gain of one bin
RegressionMetricGain(slabel_cdf_i, scount_cdf_i, label_sum, len, min_samples_leaf, min_impurity_decrease) ==
  LET invlen == F32Div(F32FromInt(1), F32FromInt(len))
      nLeft == scount_cdf_i
      nRight == len - nLeft
      parent_obj == F32Div(F32Mul(F32Neg(label_sum), label_sum),
                           F32FromInt(len))
      left_obj == F32Div(F32Neg(F32Mul(slabel_cdf_i, slabel_cdf_i)),
                         F32FromInt(nLeft))
      right_label_sum == F32Sub(slabel_cdf_i, label_sum)
      right_obj == F32Div(F32Neg(F32Mul(right_label_sum, right_label_sum)),
                          F32FromInt(nRight))
      gain == IF nLeft < min_samples_leaf \/ nRight < min_samples_leaf
              THEN NegFltMax
              ELSE F32Mul(F32Sub(parent_obj, F32Add(left_obj, right_obj)),
                          invlen)
  IN IF F32Leq(gain, min_impurity_decrease) THEN NegFltMax ELSE gain

\* the sum of n labels that all are t, accumulated one after the other
RECURSIVE LabelSum(_, _)
LabelSum(t, n) ==
  IF n <= 0 THEN F32Zero
  ELSE CHOOSE res \in {F32Add(prev, t) : prev \in {LabelSum(t, n - 1)}} : TRUE

\* rows of the nodes whose bins are evaluated
EvalMaxLen == MaxRows - 1
\* 0.1f = 13421773 * 2^-27
TargetChoices == {F32FromInt(1), F32(1, 13421773, -27)}
EvalLeafChoices == {1, 2}
EvalImpurityChoices == {F32Zero, F32FromInt(1)}

\* a bin of a two-class histogram, and how the build compiles the sums
GiniInputs ==
  {[kind |-> "gini", fused |-> fu, lvals |-> <<l0, l1>>,
    rvals |-> <<r0, r1>>, len |-> l0 + l1 + r0 + r1,
    min_samples_leaf |-> msl, min_impurity_decrease |-> mid] :
     fu \in BOOLEAN, l0 \in 0..EvalMaxLen, l1 \in 0..EvalMaxLen,
     r0 \in 0..EvalMaxLen, r1 \in 0..EvalMaxLen,
     msl \in EvalLeafChoices, mid \in EvalImpurityChoices}
\* a bin of a node whose rows all have the target t
RegressionInputs ==
  {[kind |-> "mse", target |-> t, len |-> len, nLeft |-> nLeft,
    label_sum |-> LabelSum(t, len), slabel_cdf |-> LabelSum(t, nLeft),
    min_samples_leaf |-> msl, min_impurity_decrease |-> mid] :
     t \in TargetChoices, len \in 2..EvalMaxLen, nLeft \in 0..EvalMaxLen,
     msl \in EvalLeafChoices, mid \in EvalImpurityChoices}

EvalInit ==
  /\ BuilderInit
  /\ KernelIdle
  /\ StreamIdle
  /\ ev_gain = NoGain
  /\ ev_obj = NoObjective
  /\ ev_in \in {x \in GiniInputs : 2 <= x.len /\ x.len <= EvalMaxLen}
               \cup {x \in RegressionInputs : x.nLeft <= x.len}

EvalGini ==
  /\ ev_in.kind = "gini"
  /\ ev_gain = NoGain
  /\ ev_gain' = GiniGainF32(ev_in.fused, ev_in.lvals, ev_in.rvals, ev_in.len,
                            ev_in.min_samples_leaf,
                            ev_in.min_impurity_decrease)
  /\ UNCHANGED <<ev_in, ev_obj, kernelVars, streamVars, builderVars>>

EvalRegression ==
  /\ ev_in.kind = "mse"
  /\ ev_gain = NoGain
  /\ ev_gain' = RegressionMetricGain(ev_in.slabel_cdf, ev_in.nLeft,
                                     ev_in.label_sum, ev_in.len,
                                     ev_in.min_samples_leaf,
                                     ev_in.min_impurity_decrease)
  /\ UNCHANGED <<ev_in, ev_obj, kernelVars, streamVars, builderVars>>

EvalNext == EvalGini \/ EvalRegression

\* one evaluation of an objective on one bin
EvalSpec == EvalInit /\ [][EvalNext]_vars

\* ==================================================== a deep, full tree
\* The build of a tree in which every node above max_depth is split: the
\* sampled rows are 0 .. 2^(max_depth+1) - 1, column c of row r is bit c of
\* r, every row has a class of its own (so every split of two or more rows
\* has a positive Gini gain), max_leaves = -1, min_samples_split = 2,
\* min_samples_leaf = 1, min_impurity_decrease = 0.  The nodes are kept as
\* counts: each level is complete, so node i has the depth of its index.
DeepDepthChoices == {12, 13}
DeepBatchChoices == {64, 128}
DeepParams(d, b) ==
  [max_depth |-> d, max_leaves |-> -1, max_batch_size |-> b, n_bins |-> 2,
   min_samples_split |-> 2, min_samples_leaf |-> 1,
   min_impurity_decrease |-> Rat(0, 1), split_criterion |-> "GINI"]
\* depth of the node at index i of a tree whose levels are complete
DepthOfIndex(i) == BitLen(i + 1) - 1
\* nodes of the batch that are above max_depth
DeepSplittable ==
  Max(0, Min(node_end, Pow2(params.max_depth) - 1) - node_start)

\* the Builder after workspaceSize, assignWorkspace and init
DeepInit ==
  /\ ev_in = NoEval
  /\ ev_gain = NoGain
  /\ ev_obj = NoObjective
  /\ KernelIdle
  /\ StreamIdle
  /\ done_count = << >>
  /\ mutex = << >>
  /\ pc = "split"
  /\ \E d \in DeepDepthChoices, b \in DeepBatchChoices :
       /\ params = DeepParams(d, b)
       /\ maxNodes = MaxNodesFor(d)
       /\ request = [rowMajor |-> FALSE, quantiles |-> "set",
                     nclasses |-> Pow2(d + 1), n_bins |-> 2,
                     split_criterion |-> "GINI"]
       /\ input = [nSampledRows |-> Pow2(d + 1), nSampledCols |-> d + 1,
                   nclasses |-> Pow2(d + 1), labels |-> 0,
                   quantiles |-> "set"]
       /\ nHistBins = HistBins(b, 2, DefaultBlksForCols, Pow2(d + 1))
  /\ n_blks_for_cols = DefaultBlksForCols
  /\ block_sync_size = 0
  /\ d_wsize = Uninit
  /\ h_wsize = CalculateAlignedBytes(SizeofIdxT)
  /\ wspace = NoWorkspace
  /\ enqueued = TRUE
  /\ build = 1
  /\ first_nodes = << >>
  /\ batches = << >>
  /\ rowids = << >>
  /\ hist = << >>
  /\ n_nodes = Uninit
  /\ n_leaves = 0
  /\ n_depth = 0
  /\ splits = << >>
  /\ curr_nodes = << >>
  /\ next_nodes = << >>
  /\ h_n_nodes = 0
  /\ h_total_nodes = 1
  /\ node_start = 0
  /\ node_end = 1
  /\ h_nodes = << >>
  /\ new_nodes = 0
  /\ num_leaves = 0
  /\ depth = 0
  /\ c = 0
  /\ pending = {}
  /\ blk = << >>

\* doSplit on the batch: the nodes at max_depth become leaves, every other
\* node gets two children
DeepDoSplit ==
  /\ pc = "split"
  /\ n_nodes' = 2 * DeepSplittable
  /\ h_n_nodes' = n_nodes'
  /\ new_nodes' = n_nodes'
  /\ n_leaves' = n_leaves + (BatchSize - DeepSplittable)
  /\ n_depth' = IF DeepSplittable > 0
                THEN Max(n_depth,
                         DepthOfIndex(node_start + DeepSplittable - 1) + 1)
                ELSE n_depth
  /\ pc' = "ret"
  /\ UNCHANGED <<evalVars, streamVars, kernelVars, syncVars, callerVars, wspace, enqueued, batches, cfgVars,
                 rowids, hist, splits, curr_nodes, next_nodes, rangeVars,
                 h_nodes, outVars, c, pending, blk>>

DeepNext == DeepDoSplit \/ TrainStep

DeepSpec == DeepInit /\ [][DeepNext]_vars

\* ------------------------------------------------------ Entropy objective
\* what the members of an object hold that no initialiser has written
IndeterminateLeaf == {0, 1, 2, EvalMaxLen}
IndeterminateImpurity == {F32Neg(F32FromInt(1)), F32Zero, F32FromInt(1)}

\* EntropyObjectiveFunction(DataT nclasses, IdxT min_impurity_decreas,
\*                          IdxT min_samples_leafe), lines 278-282: the
\* initialisers min_impurity_decrease(min_impurity_decrease) and
\* min_samples_leaf(min_samples_leaf) name the members, not the parameters,
\* so each member is initialised from its own indeterminate value; the
\* objects the build can produce
EntropyObjectiveFunction(nclasses, min_impurity_decreas, min_samples_leafe) ==
  {[nclasses |-> nclasses, min_impurity_decrease |-> d,
    min_samples_leaf |-> l] :
     d \in IndeterminateImpurity, l \in IndeterminateLeaf}

\* x is 2^k for a k in -2..0
PowerOfTwo(x) == x.s = 1 /\ x.m = 1 /\ x.e \in -2..0
\* raft::myLog(x) / raft::myLog(DataT(2)) for a power of two x: logf(2^k) is
\* k * logf(2) for these k, so the quotient is k
MyLog2(x) == F32FromInt(x.e)

\* lines 302-324: the classes' terms of one bin
RECURSIVE EntropyClassTerms(_, _, _, _, _, _, _)
EntropyClassTerms(lvals, rvals, invLeft, invRight, invlen, j, gain) ==
  IF j > Len(lvals) THEN gain
  ELSE LET lval == F32FromInt(lvals[j])
           rval == F32FromInt(rvals[j])
           val == F32Mul(F32FromInt(lvals[j] + rvals[j]), invlen)
           g1 == IF lvals[j] # 0
                 THEN F32Add(gain,
                             F32Mul(F32Mul(MyLog2(F32Mul(lval, invLeft)), lval),
                                    invlen))
                 ELSE gain
           g2 == IF rvals[j] # 0
                 THEN F32Add(g1,
                             F32Mul(F32Mul(MyLog2(F32Mul(rval, invRight)),
                                           rval),
                                    invlen))
                 ELSE g1
           \* val * myLog(val) / myLog(2): val is a power of two
           g3 == IF lvals[j] + rvals[j] # 0
                 THEN F32Sub(g2, F32Mul(val, MyLog2(val)))
                 ELSE g2
       IN EntropyClassTerms(lvals, rvals, invLeft, invRight, invlen, j + 1, g3)

\* One / n for a count n: 1 / 0 is +infinity, above every finite float
F32Infinity == [s |-> 1, m |-> 1, e |-> 128]
F32Inverse(n) ==
  IF n = 0 THEN F32Infinity ELSE F32Div(F32FromInt(1), F32FromInt(n))

\* EntropyObjectiveFunction::Gain, lines 284-330: the gain of one bin (no
\* term reads the inverse of an empty side)
EntropyGain(obj, lvals, rvals, len) ==
  LET One == F32FromInt(1)
      invlen == F32Div(One, F32FromInt(len))
      nLeft == SumSeq(lvals)
      nRight == len - nLeft
      gain == IF nLeft < obj.min_samples_leaf \/ nRight < obj.min_samples_leaf
              THEN NegFltMax
              ELSE EntropyClassTerms(lvals, rvals,
                                     F32Inverse(nLeft), F32Inverse(nRight),
                                     invlen, 1, F32Zero)
  IN IF F32Leq(gain, obj.min_impurity_decrease) THEN NegFltMax ELSE gain

\* every logarithm of the bin is taken of a power of two
EntropyExact(lvals, rvals, len) ==
  LET One == F32FromInt(1)
      nLeft == SumSeq(lvals)
  IN \A j \in 1..Len(lvals) :
       /\ lvals[j] # 0 =>
            PowerOfTwo(F32Mul(F32FromInt(lvals[j]),
                              F32Div(One, F32FromInt(nLeft))))
       /\ rvals[j] # 0 =>
            PowerOfTwo(F32Mul(F32FromInt(rvals[j]),
                              F32Div(One, F32FromInt(len - nLeft))))
       /\ lvals[j] + rvals[j] # 0 =>
            PowerOfTwo(F32Mul(F32FromInt(lvals[j] + rvals[j]),
                              F32Div(One, F32FromInt(len))))

EntropyMaxCount == 2
\* a bin of a two-class histogram and the arguments of the constructor
EntropyInputs ==
  {[kind |-> "entropy", lvals |-> <<l0, l1>>, rvals |-> <<r0, r1>>,
    len |-> l0 + l1 + r0 + r1,
    min_samples_leaf |-> msl, min_impurity_decrease |-> mid] :
     l0 \in 0..EntropyMaxCount, l1 \in 0..EntropyMaxCount,
     r0 \in 0..EntropyMaxCount, r1 \in 0..EntropyMaxCount,
     msl \in EvalLeafChoices, mid \in {0, 1}}

EntropyInit ==
  /\ BuilderInit
  /\ KernelIdle
  /\ StreamIdle
  /\ ev_gain = NoGain
  /\ ev_obj = NoObjective
  /\ ev_in \in {x \in EntropyInputs :
                  x.len >= 2 /\ EntropyExact(x.lvals, x.rvals, x.len)}

\* ObjectiveT objective(nclasses, min_impurity_decrease, min_samples_leaf)
EntropyConstruct ==
  /\ ev_in.kind = "entropy"
  /\ ev_obj = NoObjective
  /\ ev_obj' \in EntropyObjectiveFunction(2, ev_in.min_impurity_decrease,
                                          ev_in.min_samples_leaf)
  /\ UNCHANGED <<ev_in, ev_gain, kernelVars, streamVars, builderVars>>

EvalEntropy ==
  /\ ev_in.kind = "entropy"
  /\ ev_obj # NoObjective
  /\ ev_gain = NoGain
  /\ ev_gain' = EntropyGain(ev_obj, ev_in.lvals, ev_in.rvals, ev_in.len)
  /\ UNCHANGED <<ev_in, ev_obj, kernelVars, streamVars, builderVars>>

EntropyNext == EntropyConstruct \/ EvalEntropy

\* the construction of an entropy objective and one evaluation on one bin
EntropySpec == EntropyInit /\ [][EntropyNext]_vars


\* ========================================= the search kernel, block by block
\* computeSplitKernel with its gridDim.x blocks per <<node, column>>: every
\* block adds its share of the node's rows to the histogram and signals its
\* arrival on done_count; the block that completes the count evaluates the
\* objective and updates splits[node] under the node's mutex.

\* maxblks * mpcount: the blocks of the search kernel the device can hold
DeviceBlkChoices == {2, 4}
\* n_blks_for_rows (lines 123-138): raft::ceildiv(n_blks, gridDimy * gridDimz)
NBlksForRows(n_blks, gridDimy, gridDimz) ==
  (n_blks + gridDimy * gridDimz - 1) \div (gridDimy * gridDimz)

\* the <<node, y>> pairs of the launch that starts at column col
LaunchPairs(col) ==
  {<<nid, y>> : nid \in 0..(BatchSize - 1), y \in 0..(ColBlks(col) - 1)}

\* lines 407-422: the histogram is zeroed, then the kernel is launched
FineComputeSplit ==
  /\ pc = "cols"
  /\ c < input.nSampledCols
  /\ \E n_blks \in DeviceBlkChoices :
       /\ grid' = NBlksForRows(n_blks, ColBlks(c), BatchSize)
       /\ sblk' = [b \in {<<p[1], p[2], x>> : p \in LaunchPairs(c),
                                              x \in 0..(grid' - 1)} |-> "acc"]
  /\ pending' = LaunchPairs(c)
  /\ hist' = [b \in pending' |->
                [k \in 0..(2 * params.n_bins * input.nclasses - 1) |-> 0]]
  /\ cand' = [b \in pending' |-> SentinelSplit]
  /\ held' = [b \in DOMAIN sblk' |-> SentinelSplit]
  /\ pc' = "search"
  /\ UNCHANGED <<evalVars, streamVars, syncVars, callerVars, wspace, enqueued, batches,
                 cfgVars, rowids, n_nodes, n_leaves, n_depth, splits,
                 curr_nodes, next_nodes, h_n_nodes, rangeVars, h_nodes,
                 new_nodes, outVars, c, blk>>

\* what block x of r adds to the histogram of a node on one column: the
\* rows x, x + r, x + 2r, ... of the node's slice
PartialHistogram(node, col, x, r) ==
  LET nbins == params.n_bins
  IN [k \in 0..(2 * nbins * input.nclasses - 1) |->
        LET j == k \div (2 * nbins)
            side == (k % (2 * nbins)) \div nbins
            i == k % nbins
        IN Cardinality(
             {q \in (node.start + 1)..(node.start + node.count) :
                /\ (q - node.start - 1) % r = x
                /\ LabelAt(input.labels, rowids[q]) = j
                /\ (DataAt(rowids[q], col) <= Quantile(i, col)) <=> (side = 0)})]

\* atomicInc(address, bound): the value the counter takes
AtomicInc(old, bound) == IF old >= bound THEN 0 ELSE old + 1
\* the arriving block completes the count of its <<node, column>>
Elected(old, nblks) == old = nblks - 1
\* done_count entry of <<nid, y>>, in a grid of colBlks columns
DoneIndex(nid, y, colBlks) == nid * colBlks + y + 1

BlockAccumulate(nid, y, x) ==
  /\ pc = "search"
  /\ <<nid, y, x>> \in DOMAIN sblk
  /\ sblk[<<nid, y, x>>] = "acc"
  /\ \E part \in {PartialHistogram(curr_nodes[nid + 1], c + y, x, grid)} :
       hist' = [hist EXCEPT ![<<nid, y>>] =
                  [k \in DOMAIN @ |-> @[k] + part[k]]]
  /\ sblk' = [sblk EXCEPT ![<<nid, y, x>>] = "arrive"]
  /\ UNCHANGED <<evalVars, streamVars, grid, cand, held, syncVars, callerVars, wspace, enqueued,
                 batches, cfgVars, rowids, n_nodes, n_leaves, n_depth, splits,
                 curr_nodes, next_nodes, h_n_nodes, rangeVars, h_nodes,
                 new_nodes, outVars, c, pending, blk, pc>>

BlockArrive(nid, y, x) ==
  /\ pc = "search"
  /\ <<nid, y, x>> \in DOMAIN sblk
  /\ sblk[<<nid, y, x>>] = "arrive"
  /\ LET idx == DoneIndex(nid, y, ColBlks(c))
     IN /\ done_count' = [done_count EXCEPT ![idx] = AtomicInc(@, grid - 1)]
        /\ sblk' = [sblk EXCEPT ![<<nid, y, x>>] =
                      IF Elected(done_count[idx], grid) THEN "eval"
                      ELSE "exit"]
  /\ UNCHANGED <<evalVars, streamVars, grid, cand, held, mutex, callerVars, wspace, enqueued,
                 batches, cfgVars, rowids, hist, n_nodes, n_leaves, n_depth,
                 splits, curr_nodes, next_nodes, h_n_nodes, rangeVars, h_nodes,
                 new_nodes, outVars, c, pending, blk, pc>>

BlockEvaluate(nid, y, x) ==
  /\ pc = "search"
  /\ <<nid, y, x>> \in DOMAIN sblk
  /\ sblk[<<nid, y, x>>] = "eval"
  /\ \E sp \in {Proposal(nid, y)} :
       cand' = [cand EXCEPT ![<<nid, y>>] = sp]
  /\ sblk' = [sblk EXCEPT ![<<nid, y, x>>] = "lock"]
  /\ UNCHANGED <<evalVars, streamVars, grid, held, syncVars, callerVars, wspace, enqueued,
                 batches, cfgVars, rowids, hist, n_nodes, n_leaves, n_depth,
                 splits, curr_nodes, next_nodes, h_n_nodes, rangeVars, h_nodes,
                 new_nodes, outVars, c, pending, blk, pc>>

\* atomicCAS(mutex + nid, 0, 1) succeeds
BlockLock(nid, y, x) ==
  /\ pc = "search"
  /\ <<nid, y, x>> \in DOMAIN sblk
  /\ sblk[<<nid, y, x>>] = "lock"
  /\ mutex[nid + 1] = 0
  /\ mutex' = [mutex EXCEPT ![nid + 1] = 1]
  /\ sblk' = [sblk EXCEPT ![<<nid, y, x>>] = "crit"]
  /\ UNCHANGED <<evalVars, streamVars, grid, cand, held, done_count, callerVars, wspace,
                 enqueued, batches, cfgVars, rowids, hist, n_nodes, n_leaves,
                 n_depth, splits, curr_nodes, next_nodes, h_n_nodes, rangeVars,
                 h_nodes, new_nodes, outVars, c, pending, blk, pc>>

\* Split::update, first half: the block reads splits[nid]
BlockRead(nid, y, x) ==
  /\ pc = "search"
  /\ <<nid, y, x>> \in DOMAIN sblk
  /\ sblk[<<nid, y, x>>] = "crit"
  /\ held' = [held EXCEPT ![<<nid, y, x>>] = splits[nid + 1]]
  /\ sblk' = [sblk EXCEPT ![<<nid, y, x>>] = "write"]
  /\ UNCHANGED <<evalVars, streamVars, grid, cand, syncVars, callerVars, wspace, enqueued,
                 batches, cfgVars, rowids, hist, n_nodes, n_leaves, n_depth,
                 splits, curr_nodes, next_nodes, h_n_nodes, rangeVars, h_nodes,
                 new_nodes, outVars, c, pending, blk, pc>>

\* Split::update, second half: the better of the two is written back
BlockUpdate(nid, y, x) ==
  /\ pc = "search"
  /\ <<nid, y, x>> \in DOMAIN sblk
  /\ sblk[<<nid, y, x>>] = "write"
  /\ splits' = [splits EXCEPT ![nid + 1] =
                  SplitUpdate(held[<<nid, y, x>>], cand[<<nid, y>>])]
  /\ sblk' = [sblk EXCEPT ![<<nid, y, x>>] = "unlock"]
  /\ UNCHANGED <<evalVars, streamVars, grid, cand, held, syncVars, callerVars, wspace,
                 enqueued, batches, cfgVars, rowids, hist, n_nodes, n_leaves,
                 n_depth, curr_nodes, next_nodes, h_n_nodes, rangeVars,
                 h_nodes, new_nodes, outVars, c, pending, blk, pc>>

BlockUnlock(nid, y, x) ==
  /\ pc = "search"
  /\ <<nid, y, x>> \in DOMAIN sblk
  /\ sblk[<<nid, y, x>>] = "unlock"
  /\ mutex' = [mutex EXCEPT ![nid + 1] = 0]
  /\ sblk' = [sblk EXCEPT ![<<nid, y, x>>] = "done"]
  /\ pending' = pending \ {<<nid, y>>}
  /\ UNCHANGED <<evalVars, streamVars, grid, cand, held, done_count, callerVars, wspace,
                 enqueued, batches, cfgVars, rowids, hist, n_nodes, n_leaves,
                 n_depth, splits, curr_nodes, next_nodes, h_n_nodes, rangeVars,
                 h_nodes, new_nodes, outVars, c, blk, pc>>

\* every block of the launch has returned: the column loop goes on
KernelEnd ==
  /\ pc = "search"
  /\ \A b \in DOMAIN sblk : sblk[b] \in {"exit", "done"}
  /\ c' = c + ColumnStep
  /\ pc' = "cols"
  /\ UNCHANGED <<evalVars, streamVars, kernelVars, syncVars, callerVars, wspace, enqueued,
                 batches, cfgVars, rowids, hist, n_nodes, n_leaves, n_depth,
                 splits, curr_nodes, next_nodes, h_n_nodes, rangeVars, h_nodes,
                 new_nodes, outVars, pending, blk>>

FineSearch ==
  \E nid \in 0..(BatchSize - 1), y \in 0..(n_blks_for_cols - 1),
     x \in 0..(grid - 1) :
       \/ BlockAccumulate(nid, y, x)
       \/ BlockArrive(nid, y, x)
       \/ BlockEvaluate(nid, y, x)
       \/ BlockLock(nid, y, x)
       \/ BlockRead(nid, y, x)
       \/ BlockUpdate(nid, y, x)
       \/ BlockUnlock(nid, y, x)

\* the builds whose search kernels are followed block by block
FineDepthChoices == {1, 2}
FineRows == 4
FineLabelPatterns == {0, 6, 8}
FineConfigure ==
  /\ pc = "new"
  /\ \E d \in FineDepthChoices, b \in BatchChoices, cols \in ColChoices,
        pat \in FineLabelPatterns :
       RunF(FALSE, [SmallParams EXCEPT !.max_depth = d, !.max_batch_size = b],
            FineRows, cols, 2, pat, "set")

FineTrain ==
  \/ TrainInit
  \/ DoSplitBegin
  \/ FineComputeSplit
  \/ FineSearch
  \/ KernelEnd
  \/ LaunchNodeSplit
  \/ NodeSplit
  \/ DoSplitFinish
  \/ TrainStep

FineNext == FineConfigure \/ AssignWorkspace \/ FineTrain

FineSpec == Init /\ [][FineNext]_vars

\* every launched block is scheduled and the host thread runs
FineFairSpec == FineSpec /\ WF_vars(FineTrain)

\* ================================== the host thread and the stream of train
\* train as the host thread runs it: every cudaMemsetAsync, kernel launch and
\* raft::update_host / update_device is enqueued on the stream s and the
\* device completes the operations in the order they were enqueued, while
\* the host goes on; cudaStreamSynchronize holds the host until the stream
\* is empty. What the kernels compute is left open: a nodeSplitKernel
\* creates any even number of children the node limit allows.

\* an operation on the stream: dst and src name the arrays it writes and
\* reads, off and n the range of the host vector or the kernel's arguments
StreamOp(op, dst, src, off, n) ==
  [op |-> op, dst |-> dst, src |-> src, off |-> off, n |-> n]

\* the operation reads or writes the storage of the caller's vector
TouchesHostNodes(o) == o.dst = "h_nodes" \/ o.src = "h_nodes"

\* lines 298-319: init
StreamTrainInit ==
  /\ pc = "assigned"
  /\ h_n_nodes' = 0
  /\ stream' = stream \o
       <<StreamOp("memset", "done_count", "", 0, 0),
         StreamOp("memset", "mutex", "", 0, 0),
         StreamOp("memset", "n_leaves", "", 0, 0),
         StreamOp("memset", "n_depth", "", 0, 0)>>
  /\ node_start' = 0
  /\ node_end' = 1
  /\ h_total_nodes' = 1
  /\ h_nodes' = <<RootNode>>
  /\ enqueued' = TRUE
  /\ pc' = "s_split"
  /\ UNCHANGED <<evalVars, kernelVars, syncVars, callerVars, wspace, batches,
                 cfgVars, rowids, devVars, new_nodes, outVars, c, pending,
                 blk>>

\* lines 355-358 with 413-422: a histogram memset and a search launch for
\* every block of columns
ColumnLaunches ==
  LET launches == (input.nSampledCols + ColumnStep - 1) \div ColumnStep
  IN [i \in 1..(2 * launches) |->
        IF i % 2 = 1
        THEN StreamOp("memset", "hist", "", 0, 0)
        ELSE StreamOp("kernel", "splits", "hist",
                      ((i \div 2) - 1) * ColumnStep, BatchSize)]

\* lines 345-370: everything doSplit enqueues before it synchronizes
StreamDoSplitEnqueue ==
  /\ pc = "s_split"
  /\ stream' = stream \o
       <<StreamOp("memset", "n_nodes", "", 0, 0),
         StreamOp("kernel", "splits", "", 0, BatchSize),
         StreamOp("copy", "curr_nodes", "h_nodes", node_start, BatchSize)>>
       \o ColumnLaunches \o
       <<StreamOp("kernel", "n_nodes", "splits", h_total_nodes, BatchSize),
         StreamOp("copy", "h_n_nodes", "n_nodes", 0, 1)>>
  /\ batches' = Append(batches, <<node_start, node_end, h_total_nodes>>)
  /\ pc' = "s_sync"
  /\ UNCHANGED <<evalVars, kernelVars, syncVars, callerVars, wspace, enqueued,
                 cfgVars, rowids, devVars, h_n_nodes, rangeVars, h_nodes,
                 new_nodes, outVars, c, pending, blk>>

\* a synchronize that returns at once
C25_StreamSynchronizedMutant == TRUE
\* cudaStreamSynchronize(s) returns (line 371)
StreamSynchronized == stream = << >>

StreamSynchronize ==
  /\ pc = "s_sync"
  /\ StreamSynchronized
  /\ pc' = "s_resize"
  /\ UNCHANGED <<evalVars, kernelVars, streamVars, syncVars, callerVars,
                 wspace, enqueued, batches, cfgVars, rowids, devVars,
                 h_n_nodes, rangeVars, h_nodes, new_nodes, outVars, c,
                 pending, blk>>

\* line 372: the host reads *h_n_nodes and resizes the vector
StreamResize ==
  /\ pc = "s_resize"
  /\ h_nodes' = Resized(h_nodes, BatchSize + h_n_nodes)
  /\ pc' = "s_copy"
  /\ UNCHANGED <<evalVars, kernelVars, streamVars, syncVars, callerVars,
                 wspace, enqueued, batches, cfgVars, rowids, devVars,
                 h_n_nodes, rangeVars, new_nodes, outVars, c, pending, blk>>

\* lines 373-377: the two copies into the vector are enqueued and doSplit
\* returns *h_n_nodes
StreamCopies ==
  /\ pc = "s_copy"
  /\ stream' = stream \o
       <<StreamOp("copy", "h_nodes", "curr_nodes", node_start, BatchSize),
         StreamOp("copy", "h_nodes", "next_nodes", h_total_nodes, h_n_nodes)>>
  /\ new_nodes' = h_n_nodes
  /\ pc' = "s_ret"
  /\ UNCHANGED <<evalVars, kernelVars, syncVars, callerVars, wspace, enqueued,
                 batches, cfgVars, rowids, devVars, h_n_nodes, rangeVars,
                 h_nodes, outVars, c, pending, blk>>

\* lines 271-276: the loop of train
StreamTrainStep ==
  /\ pc = "s_ret"
  /\ h_total_nodes' = h_total_nodes + new_nodes
  /\ IF new_nodes = 0 /\ IsOver(node_end, h_total_nodes')
     THEN /\ stream' = stream \o
               <<StreamOp("copy", "num_leaves", "n_leaves", 0, 1),
                 StreamOp("copy", "depth", "n_depth", 0, 1)>>
          /\ pc' = "s_done"
          /\ UNCHANGED <<node_start, node_end>>
     ELSE /\ node_start' = UpdateNodeRange(node_end, h_total_nodes').node_start
          /\ node_end' = UpdateNodeRange(node_end, h_total_nodes').node_end
          /\ pc' = "s_split"
          /\ UNCHANGED stream
  /\ UNCHANGED <<evalVars, kernelVars, syncVars, callerVars, wspace, enqueued,
                 batches, cfgVars, rowids, devVars, h_n_nodes, h_nodes,
                 new_nodes, outVars, c, pending, blk>>

\* the numbers of children a nodeSplitKernel launched on n nodes, with total
\* nodes so far, can leave in n_nodes
ChildrenCounts(total, n) ==
  {k \in 0..(2 * n) : k % 2 = 0 /\ total + k <= MaxNodesFor(params.max_depth)}

\* the device completes the oldest operation of the stream
StreamStep ==
  /\ stream # << >>
  /\ stream' = Tail(stream)
  /\ LET o == Head(stream)
     IN /\ IF o.dst = "n_nodes"
           THEN IF o.op = "memset" THEN n_nodes' = 0
                ELSE n_nodes' \in ChildrenCounts(o.off, o.n)
           ELSE UNCHANGED n_nodes
        /\ IF o.dst = "h_n_nodes" THEN h_n_nodes' = n_nodes
           ELSE UNCHANGED h_n_nodes
        /\ IF o.dst = "curr_nodes"
           THEN curr_nodes' =
                  CopyTo(curr_nodes, 0,
                         [i \in 1..o.n |->
                            IF o.off + i <= Len(h_nodes)
                            THEN h_nodes[o.off + i] ELSE UninitNode], o.n)
           ELSE UNCHANGED curr_nodes
        /\ IF o.dst = "h_nodes"
           THEN h_nodes' = CopyTo(h_nodes, o.off,
                                  IF o.src = "curr_nodes" THEN curr_nodes
                                  ELSE next_nodes, o.n)
           ELSE UNCHANGED h_nodes
  /\ UNCHANGED <<evalVars, kernelVars, syncVars, pc, callerVars, wspace,
                 enqueued, batches, cfgVars, rowids, hist, n_leaves, n_depth,
                 splits, next_nodes, rangeVars, new_nodes, outVars, c,
                 pending, blk>>

StreamTrain ==
  \/ StreamTrainInit
  \/ StreamDoSplitEnqueue
  \/ StreamSynchronize
  \/ StreamResize
  \/ StreamCopies
  \/ StreamTrainStep

StreamNext == FineConfigure \/ AssignWorkspace \/ StreamTrain \/ StreamStep

StreamSpec == Init /\ [][StreamNext]_vars

\* ============================================================== claims
\* number of nodes the host sequence holds (doSplit has copied the new
\* children before train adds them to h_total_nodes)
InTrain == pc \in {"split", "cols", "search", "nodesplit", "ret"}
NumNodes == IF pc = "ret" THEN h_total_nodes + new_nodes
            ELSE IF InTrain \/ pc = "done" THEN h_total_nodes ELSE 0
NodeIds == 0..(NumNodes - 1)
HostNode(i) == h_nodes[i + 1]
\* nodes whose batch has been applied and copied back
ProcessedEnd == IF pc \in {"split", "cols", "search", "nodesplit"}
                THEN node_start ELSE node_end
IsInternal(i) == /\ i < ProcessedEnd
                 /\ ~HostNode(i).is_leaf
LeftOf(i) == HostNode(HostNode(i).left_child_id)
RightOf(i) == HostNode(HostNode(i).left_child_id + 1)
HasChildren(i) == /\ HostNode(i).left_child_id > i
                  /\ HostNode(i).left_child_id + 1 < NumNodes
\* number of doSplit calls whose batch held node i
TimesSubmitted(i) ==
  Cardinality({k \in 1..Len(batches) : batches[k][1] <= i /\ i < batches[k][2]})
\* the rows of the host node's slice of rowids
RowsOf(n) == {rowids[q] : q \in (n.start + 1)..(n.start + n.count)}

\* ------------------------------------------------------------------ C1
\* C1: once train has started it reaches the end of its loop, and it leaves
\* the loop only when the last doSplit produced no node, node_end equals
\* h_total_nodes and every node of the sequence was submitted to doSplit.
C1_ExitState ==
  pc = "done" =>
    /\ new_nodes = 0
    /\ node_end = h_total_nodes
    /\ \A i \in NodeIds : TimesSubmitted(i) >= 1
C1_Termination == (InTrain ~> pc = "done") /\ []C1_ExitState
C1_Witness == pc = "done" /\ h_total_nodes = 7 /\ Len(batches) >= 4

\* ------------------------------------------------------------------ C2
\* C2: the two children of every internal node have counts that add up to
\* the parent's count and adjacent ranges that start at the parent's start,
\* so they are disjoint and cover the parent's range; the rows of the left
\* range lie left of the split and the rows of the right range right of it.
C2_Partition ==
  \A i \in NodeIds : IsInternal(i) =>
    /\ HasChildren(i)
    /\ LeftOf(i).count + RightOf(i).count = HostNode(i).count
    /\ LeftOf(i).start = HostNode(i).start
    /\ RightOf(i).start = HostNode(i).start + LeftOf(i).count
    /\ LeftOf(i).count >= 0 /\ RightOf(i).count >= 0
    /\ \A r \in RowsOf(LeftOf(i)) :
         DataAt(r, HostNode(i).split_feature) <= HostNode(i).split_threshold
    /\ \A r \in RowsOf(RightOf(i)) :
         DataAt(r, HostNode(i).split_feature) > HostNode(i).split_threshold
C2_Witness ==
  /\ pc = "done"
  /\ \E i \in NodeIds : IsInternal(i) /\ i > 0 /\ HostNode(i).count = 4

\* ------------------------------------------------------------------ C3
\* C3: every child is one level below its parent and no node of the
\* sequence is deeper than max_depth.
C3_MonotoneDepth ==
  /\ \A i \in NodeIds : IsInternal(i) =>
       /\ HasChildren(i)
       /\ LeftOf(i).depth = HostNode(i).depth + 1
       /\ RightOf(i).depth = HostNode(i).depth + 1
  /\ InTrain \/ pc = "done" =>
       \A i \in NodeIds : HostNode(i).depth <= params.max_depth
C3_Witness ==
  /\ pc = "done"
  /\ params.max_depth = 1
  /\ input.nSampledRows = MaxRows
  /\ \E i \in NodeIds : HostNode(i).depth = 1 /\ HostNode(i).count >= 4

\* ------------------------------------------------------------------ C4
\* C4: with max_leaves > 0 the finished tree has at most max_leaves leaves.
C4_LeafCap ==
  (pc = "done" /\ params.max_leaves > 0) => num_leaves <= params.max_leaves

\* ------------------------------------------------------------------ C5
\* C5: both children of every internal node hold at least min_samples_leaf
\* rows, and every candidate the search leaves in splits[] has at least
\* min_samples_leaf rows on either side.
C5_MinSamplesLeaf ==
  /\ \A i \in NodeIds : (IsInternal(i) /\ HasChildren(i)) =>
       /\ LeftOf(i).count >= params.min_samples_leaf
       /\ RightOf(i).count >= params.min_samples_leaf
  /\ pc \in {"cols", "search", "nodesplit"} =>
       \A k \in 1..BatchSize : RatLt(NegInf, splits[k].gain) =>
         /\ splits[k].nLeft >= params.min_samples_leaf
         /\ curr_nodes[k].count - splits[k].nLeft >= params.min_samples_leaf

\* ------------------------------------------------------------------ C6
\* C6: the gain recorded in every internal node exceeds min_impurity_decrease
\* and the sentinel, and no candidate with a gain <= min_impurity_decrease
\* survives the search.
C6_SplitAcceptance ==
  /\ \A i \in NodeIds : IsInternal(i) =>
       /\ RatLt(params.min_impurity_decrease, HostNode(i).gain)
       /\ RatLt(NegInf, HostNode(i).gain)
  /\ pc \in {"cols", "search", "nodesplit"} =>
       \A k \in 1..BatchSize : RatLt(NegInf, splits[k].gain) =>
         RatLt(params.min_impurity_decrease, splits[k].gain)

\* ------------------------------------------------------------------ C7
\* C7: when all column blocks of a batch have been searched, splits[node]
\* is the greatest, under "larger gain, then smaller column, then smaller
\* threshold, then larger nLeft", of the sentinel and all candidates of the
\* node over all sampled columns and bins, whatever the order of the blocks;
\* of several columns with the greatest gain the lowest is recorded.
C7_Candidates(k) ==
  {SentinelSplit} \cup
  {GiniCandidate(ComputeSplitObjective, Histogram(curr_nodes[k], col), col,
                 curr_nodes[k].count, params.n_bins, i) :
     col \in 0..(input.nSampledCols - 1), i \in 0..(params.n_bins - 1)}
C7_Precedes(a, b) ==
  \/ a.gain.num * b.gain.den > b.gain.num * a.gain.den
  \/ /\ a.gain.num * b.gain.den = b.gain.num * a.gain.den
     /\ a.column < b.column
  \/ /\ a.gain.num * b.gain.den = b.gain.num * a.gain.den
     /\ a.column = b.column
     /\ a.threshold < b.threshold
  \/ /\ a.gain.num * b.gain.den = b.gain.num * a.gain.den
     /\ a.column = b.column
     /\ a.threshold = b.threshold
     /\ a.nLeft > b.nLeft
C7_SearchDone ==
  pc = "nodesplit" \/ (pc = "cols" /\ c >= input.nSampledCols)
C7_BestSplit ==
  C7_SearchDone =>
    \A k \in 1..BatchSize :
      /\ splits[k] \in C7_Candidates(k)
      /\ \A o \in C7_Candidates(k) : o = splits[k] \/ C7_Precedes(splits[k], o)
      /\ \A o \in C7_Candidates(k) :
           o.gain.num * splits[k].gain.den = splits[k].gain.num * o.gain.den
             => splits[k].column <= o.column
\* two columns tie on a real gain, their blocks ran in one launch, and the
\* lower column is recorded
C7_Witness ==
  /\ pc = "nodesplit"
  /\ n_blks_for_cols = 2
  /\ \E o \in C7_Candidates(1) :
       /\ o.column = 1
       /\ o.gain.num > 0
       /\ o.gain.num * splits[1].gain.den = splits[1].gain.num * o.gain.den
  /\ splits[1].column = 0

\* ------------------------------------------------------------------ C8
\* C8: a second build on the same input, seeds and configuration returns
\* the same node sequence as the first one.
C8_Determinism == (pc = "done" /\ build = 2) => h_nodes = first_nodes

\* ------------------------------------------------------------------ C9
\* C9: every leaf has split_feature = -1 and left_child_id = -1; every node
\* that is not a leaf after its batch has a left_child_id that is the host
\* index of its left child, with the right child next to it, both written
\* at or after the h_total_nodes of the batch that created them.
C9_BatchOf(i) ==
  CHOOSE k \in 1..Len(batches) : batches[k][1] <= i /\ i < batches[k][2]
C9_Sentinel ==
  \A i \in NodeIds :
    /\ HostNode(i).is_leaf =>
         HostNode(i).split_feature = -1 /\ HostNode(i).left_child_id = -1
    /\ IsInternal(i) =>
         /\ HasChildren(i)
         /\ HostNode(i).split_feature >= 0
         /\ LeftOf(i).start = HostNode(i).start
         /\ LeftOf(i).depth = HostNode(i).depth + 1
         /\ LeftOf(i).count < HostNode(i).count
         /\ RightOf(i).start = HostNode(i).start + LeftOf(i).count
         /\ RightOf(i).depth = HostNode(i).depth + 1
         /\ HostNode(i).left_child_id >= batches[C9_BatchOf(i)][3]
         /\ HostNode(i).left_child_id + 1 <
              batches[C9_BatchOf(i)][3]
                + 2 * (batches[C9_BatchOf(i)][2] - batches[C9_BatchOf(i)][1])
C9_Witness ==
  /\ pc = "done"
  /\ \E i \in NodeIds : IsInternal(i) /\ HostNode(i).left_child_id = 5
  /\ \E i \in NodeIds : HostNode(i).is_leaf

\* ----------------------------------------------------------------- C10
\* C10: at every call of doSplit 0 <= node_start < node_end <= h_total_nodes
\* and the batch holds between 1 and max_batch_size nodes; each batch starts
\* where the previous one ended, the first at 0; no node is submitted twice
\* and at the end every node has been submitted exactly once.
C10_FrontierRange ==
  /\ pc = "split" =>
       /\ 0 <= node_start /\ node_start < node_end
       /\ node_end <= h_total_nodes
       /\ 1 <= BatchSize /\ BatchSize <= params.max_batch_size
       /\ node_start = IF batches = << >> THEN 0
                       ELSE batches[Len(batches)][2]
  /\ InTrain \/ pc = "done" =>
       /\ \A k \in 1..Len(batches) :
            batches[k][1] = IF k = 1 THEN 0 ELSE batches[k - 1][2]
       /\ \A i \in NodeIds : TimesSubmitted(i) <= 1
  /\ pc = "done" => \A i \in NodeIds : TimesSubmitted(i) = 1
C10_Witness ==
  /\ pc = "split"
  /\ BatchSize = 2
  /\ node_end < h_total_nodes
  /\ node_start > 0

\* ----------------------------------------------------------------- C11
\* C11: a block that reads the leaf count takes the cap exactly when
\* max_leaves is positive and n_leaves >= max_leaves; a node whose depth + 1
\* exceeds max_depth, or that took the cap, or with count < min_samples_split
\* or count < 2 * min_samples_leaf, or whose best split is the sentinel,
\* becomes a leaf without children and n_leaves grows by one; every other
\* node stays internal, gets exactly two children and n_nodes grows by two.
C11_Limit(k) ==
  \/ curr_nodes[k].depth + 1 > params.max_depth
  \/ blk[k] = "cap"
  \/ curr_nodes[k].count < params.min_samples_split
  \/ curr_nodes[k].count < 2 * params.min_samples_leaf
  \/ ~RatLt(NegInf, splits[k].gain)
C11_Step ==
  (pc = "nodesplit" /\ pc' = "nodesplit") =>
    \A k \in 1..BatchSize :
      /\ (blk[k] = "start" /\ blk'[k] # "start") =>
           (blk'[k] = "cap" <=>
              (params.max_leaves > 0 /\ n_leaves >= params.max_leaves))
      /\ (blk[k] \in {"cap", "nocap"} /\ blk'[k] = "done") =>
           IF C11_Limit(k)
           THEN /\ curr_nodes'[k].is_leaf
                /\ curr_nodes'[k].left_child_id = -1
                /\ n_nodes' = n_nodes
                /\ next_nodes' = next_nodes
                /\ n_leaves' = n_leaves + 1
           ELSE /\ ~curr_nodes'[k].is_leaf
                /\ n_nodes' = n_nodes + 2
                /\ \A q \in 1..Len(next_nodes) :
                     q \notin {n_nodes + 1, n_nodes + 2} =>
                       next_nodes'[q] = next_nodes[q]
                /\ next_nodes'[n_nodes + 1].count + next_nodes'[n_nodes + 2].count
                     = curr_nodes[k].count
                /\ n_leaves' = n_leaves
C11_StructuralLimits == [][C11_Step]_vars
\* a node with a real best split and room below it became a leaf because of
\* the leaf cap alone, and another node of the build was split
C11_Witness ==
  /\ pc = "nodesplit"
  /\ \E k \in 1..BatchSize :
       /\ blk[k] = "done"
       /\ curr_nodes[k].is_leaf
       /\ RatLt(NegInf, splits[k].gain)
       /\ curr_nodes[k].depth + 1 <= params.max_depth
       /\ curr_nodes[k].count >= params.min_samples_split
       /\ curr_nodes[k].count >= 2 * params.min_samples_leaf
  /\ h_total_nodes = 3

\* ----------------------------------------------------------------- C12
\* C12: when train has finished, num_leaves is the number of leaves among
\* the created nodes and depth is the largest depth of a created node;
\* during a build n_leaves and n_depth never decrease, and they are set to
\* zero only by init.
C12_Final ==
  pc = "done" =>
    /\ num_leaves = Cardinality({i \in NodeIds : HostNode(i).is_leaf})
    /\ \A i \in NodeIds : HostNode(i).depth <= depth
    /\ \E i \in NodeIds : HostNode(i).depth = depth
C12_Step ==
  /\ InTrain => (n_leaves' >= n_leaves /\ n_depth' >= n_depth)
  /\ ((n_leaves' = 0 /\ n_leaves # 0) \/ (n_depth' = 0 /\ n_depth # 0))
       => (pc = "assigned" /\ pc' = "split")
C12_Outputs == []C12_Final /\ [][C12_Step]_vars
C12_Witness == pc = "done" /\ num_leaves = 3 /\ depth = 2 /\ h_total_nodes = 5

\* ----------------------------------------------------------------- C13
\* C13: the host node sequence holds exactly one node after init, and each
\* doSplit call over batchSize nodes makes it longer by 0 .. 2 * batchSize
\* nodes.
C13_Step ==
  /\ (pc = "assigned" /\ pc' = "split") => Len(h_nodes') = 1
  /\ (pc = "nodesplit" /\ pc' = "ret") =>
       Len(h_nodes') - Len(h_nodes) \in 0..(2 * BatchSize)
C13_SequenceGrowth == [][C13_Step]_vars

\* ----------------------------------------------------------------- C14
\* C14: a doSplit over [node_start, node_end) leaves every host node below
\* the old h_total_nodes and outside the batch unchanged, and keeps start,
\* count, depth and unique_id of the nodes of the batch; no other step of
\* train writes the host nodes, and at the end every node was in exactly
\* one batch.
C14_Step ==
  /\ (pc = "nodesplit" /\ pc' = "ret") =>
       \A i \in 0..(h_total_nodes - 1) :
         IF node_start <= i /\ i < node_end
         THEN /\ h_nodes'[i + 1].start = h_nodes[i + 1].start
              /\ h_nodes'[i + 1].count = h_nodes[i + 1].count
              /\ h_nodes'[i + 1].depth = h_nodes[i + 1].depth
              /\ h_nodes'[i + 1].unique_id = h_nodes[i + 1].unique_id
         ELSE h_nodes'[i + 1] = h_nodes[i + 1]
  /\ (InTrain /\ ~(pc = "nodesplit" /\ pc' = "ret")) => h_nodes' = h_nodes
C14_Once == pc = "done" => \A i \in NodeIds : TimesSubmitted(i) = 1
C14_AppendOnly == [][C14_Step]_vars /\ []C14_Once
\* a batch in the middle of the sequence has been copied back with two
\* new children
C14_Witness ==
  /\ pc = "ret"
  /\ node_start > 0
  /\ node_end < h_total_nodes
  /\ new_nodes = 2
  /\ ~HostNode(node_start).is_leaf

\* ----------------------------------------------------------------- C15
\* C15: with max_depth = 0 the node sequence train returns is the root
\* alone, the root is a leaf, num_leaves = 1 and depth = 0.
C15_DepthZero ==
  (pc = "done" /\ params.max_depth = 0) =>
    /\ Len(h_nodes) = 1
    /\ h_nodes[1].is_leaf
    /\ num_leaves = 1
    /\ depth = 0

\* ----------------------------------------------------------------- C18
\* what the harness was asked to do is one of the misconfigurations
C18_Misconfigured ==
  \/ request.rowMajor
  \/ request.quantiles = "null"
  \/ request.nclasses < 1
  \/ request.n_bins < 1
  \/ request.split_criterion # "GINI"

\* C18: a call with null quantiles, nclasses < 1, n_bins < 1, an unknown
\* split criterion or row-major input fails, nothing is ever enqueued on the
\* stream for it and no workspace size is reported.
C18_FailFast ==
  (pc # "new" /\ C18_Misconfigured) =>
    /\ pc = "failed"
    /\ ~enqueued
    /\ d_wsize = Uninit
    /\ h_wsize = Uninit

\* ----------------------------------------------------------------- C19
\* what workspaceSize reports for these arguments on a Builder that was
\* never used before
C19_FreshSize(max_batch, nbins, sampledCols, nclasses) ==
  LET n_col_blks == Min(sampledCols, DefaultBlksForCols)
  IN SumSeq(DeviceTerms(max_batch, n_col_blks,
                        HistBins(max_batch, nbins, n_col_blks, nclasses), 0))

\* C19: the sizes workspaceSize reported are a function of the arguments of
\* the call: they are the sizes a Builder without history reports for them.
C19_Pure ==
  pc = "sized" =>
    /\ d_wsize = C19_FreshSize(params.max_batch_size, params.n_bins,
                               input.nSampledCols, input.nclasses)
    /\ h_wsize = CalculateAlignedBytes(SizeofIdxT)

\* ----------------------------------------------------------------- C20
\* the regions in the order of workspaceSize, with the offset assignWorkspace
\* bound and the bytes the region holds
C20_Offsets ==
  << wspace.n_nodes, wspace.hist, wspace.done_count, wspace.mutex,
     wspace.block_sync, wspace.n_leaves, wspace.n_depth, wspace.splits,
     wspace.curr_nodes, wspace.next_nodes >>
C20_Bytes ==
  << SizeofIdxT, SizeofBinT * nHistBins,
     SizeofInt * params.max_batch_size * n_blks_for_cols,
     SizeofInt * params.max_batch_size, block_sync_size, SizeofIdxT,
     SizeofIdxT, SizeofSplitT * params.max_batch_size,
     SizeofNodeT * params.max_batch_size,
     SizeofNodeT * 2 * params.max_batch_size >>
C20_Summed ==
  DeviceTerms(params.max_batch_size, n_blks_for_cols, nHistBins,
              block_sync_size)
C20_Bound == pc \notin {"new", "sized", "failed"}

\* C20: every region assignWorkspace bound starts at a multiple of 512
\* bytes, non-empty regions do not overlap, the regions follow each other in
\* the order and at the aligned sizes workspaceSize summed, and next_nodes
\* ends within the d_wsize that workspaceSize returned.
C20_Layout ==
  C20_Bound =>
    /\ C20_Offsets[1] = 0
    /\ \A i \in 1..10 : C20_Offsets[i] % 512 = 0
    /\ \A i \in 1..9 : C20_Offsets[i + 1] = C20_Offsets[i] + C20_Summed[i]
    /\ \A i \in 1..10 : \A j \in 1..10 :
         (i # j /\ C20_Bytes[i] > 0 /\ C20_Bytes[j] > 0) =>
           \/ C20_Offsets[i] + C20_Bytes[i] <= C20_Offsets[j]
           \/ C20_Offsets[j] + C20_Bytes[j] <= C20_Offsets[i]
    /\ C20_Offsets[10] + C20_Bytes[10] <= d_wsize

\* the workspace of a large batch is bound: the histogram takes two units
C20_Witness ==
  /\ pc = "assigned"
  /\ params.max_batch_size = LargeBatch
  /\ wspace.done_count - wspace.hist = 2 * AlignValue
  /\ wspace.next_nodes + SizeofNodeT * 2 * LargeBatch <= d_wsize

\* ----------------------------------------------------------------- C16
\* the rows of the node whose bin was evaluated all carry one label
C16_SameLabel ==
  \/ /\ ev_in.kind = "gini"
     /\ \E j \in 1..2 : ev_in.lvals[j] = 0 /\ ev_in.rvals[j] = 0
  \/ ev_in.kind = "mse"

\* C16: when all rows of a node carry the same label, the Gini gain and the
\* MSE gain of every candidate bin are vetoed to -FLT_MAX, for every
\* min_impurity_decrease >= 0 and min_samples_leaf >= 1.
C16_IdenticalLabels ==
  (ev_gain # NoGain /\ C16_SameLabel) => ev_gain = NegFltMax

\* ----------------------------------------------------------------- C17
\* C17: maxNodes is 2^(max_depth+1) - 1 for max_depth < 13 and 8191
\* otherwise, and the number of nodes created never exceeds it.
C17_NodeReservation ==
  pc \in {"split", "ret", "done"} =>
    /\ maxNodes = IF params.max_depth < 13
                  THEN Pow2(params.max_depth + 1) - 1 ELSE 8191
    /\ h_total_nodes <= maxNodes

\* ------------------------------------------------ the search kernel's blocks
\* the blocks of a launch that work on <<nid, y>>
BlocksOf(nid, y) == {b \in DOMAIN sblk : b[1] = nid /\ b[2] = y}
\* the phases of a block that was elected to evaluate
EvalPhases == {"eval", "lock", "crit", "write", "unlock", "done"}
Evaluators(nid, y) == {b \in BlocksOf(nid, y) : sblk[b] \in EvalPhases}
\* a search launch is in flight
Launched == pc = "search" /\ DOMAIN sblk # {}

\* C21: in every search launch, each <<node, column>> has at most one block
\* that evaluates the objective, that block starts only after every block of
\* the pair has added its rows (the histogram of the pair is complete), and
\* once every block of the pair has arrived exactly one has evaluated; this
\* holds in every interleaving of the blocks.
C21_Election ==
  Launched =>
    \A p \in LaunchPairs(c) :
      /\ Cardinality(Evaluators(p[1], p[2])) <= 1
      /\ Evaluators(p[1], p[2]) # {} =>
           /\ \A b \in BlocksOf(p[1], p[2]) : sblk[b] \notin {"acc", "arrive"}
           /\ hist[p] = Histogram(curr_nodes[p[1] + 1], c + p[2])
      /\ (\A b \in BlocksOf(p[1], p[2]) : sblk[b] \notin {"acc", "arrive"}) =>
           Cardinality(Evaluators(p[1], p[2])) = 1

\* two blocks share a pair, one of them was elected after the other arrived,
\* in a batch other than the first
C21_Witness ==
  /\ Launched
  /\ grid = 2
  /\ node_start > 0
  /\ \E p \in LaunchPairs(c) :
       /\ sblk[<<p[1], p[2], 0>>] = "eval"
       /\ sblk[<<p[1], p[2], 1>>] = "exit"

\* the position of a block, launched or not
Phase(b) == IF b \in DOMAIN sblk THEN sblk[b] ELSE "none"
\* every block a launch of the followed builds can have
FineBlocks == {<<nid, y, x>> : nid \in 0..1, y \in 0..1, x \in 0..3}
\* the blocks inside the update of splits[nid]
Inside(nid) ==
  {b \in DOMAIN sblk : b[1] = nid /\ sblk[b] \in {"crit", "write", "unlock"}}
\* the blocks whose candidate has been applied to splits[nid]
Applied(nid) ==
  {b \in DOMAIN sblk : b[1] = nid /\ sblk[b] \in {"unlock", "done"}}

\* at most one block per node inside the update, the mutex is taken exactly
\* while a block is inside (so it is 0 outside a launch and when it ends),
\* and splits[node] is never worse than a candidate that was applied
C22_Exclusion ==
  InTrain =>
    \A nid \in 0..(Len(mutex) - 1) :
      IF Launched
      THEN /\ Cardinality(Inside(nid)) <= 1
           /\ mutex[nid + 1] = (IF Inside(nid) = {} THEN 0 ELSE 1)
           /\ \A b \in Applied(nid) :
                SplitUpdate(splits[nid + 1], cand[<<b[1], b[2]>>])
                  = splits[nid + 1]
      ELSE mutex[nid + 1] = 0

\* a block that tries to take the mutex gets it, applies its candidate and
\* releases the mutex
C22_Acquires ==
  \A b \in FineBlocks :
    (Launched /\ Phase(b) = "lock") ~> (Phase(b) = "done")

\* C22: per node at most one block is inside the best-split update at any
\* moment, no applied candidate is lost, the mutex is 0 when the launch ends,
\* and every block that tries to update eventually acquires the mutex,
\* applies its candidate and releases it.
C22_Mutex == []C22_Exclusion /\ C22_Acquires

\* one block of a node waits for the mutex while another block of the same
\* node is writing splits[node]
C22_Witness ==
  /\ Launched
  /\ \E b1 \in DOMAIN sblk, b2 \in DOMAIN sblk :
       /\ b1[1] = b2[1]
       /\ sblk[b1] = "lock"
       /\ sblk[b2] = "write"
       /\ SplitBetter(cand[<<b1[1], b1[2]>>], held[b2])

\* the search of a batch is about to start: doSplit has reset n_nodes and
\* the splits and no column has been searched
BatchStart == pc = "cols" /\ c = 0
\* a launch has been enqueued and none of its blocks has run
LaunchStart == Launched /\ \A b \in DOMAIN sblk : sblk[b] = "acc"

C23_AtBatchStart ==
  BatchStart =>
    /\ n_nodes = 0
    /\ \A i \in 1..BatchSize : splits[i] = SentinelSplit
    /\ \A i \in 1..Len(done_count) : done_count[i] = 0
    /\ \A i \in 1..Len(mutex) : mutex[i] = 0

C23_AtLaunchStart ==
  LaunchStart =>
    \A p \in DOMAIN hist : \A k \in DOMAIN hist[p] : hist[p][k] = 0

\* between init and the end of train the host leaves done_count and mutex
\* alone: only the blocks of a launch write them
C23_HostStep == (InTrain /\ pc # "search") => UNCHANGED syncVars

\* C23: at the start of the search of every batch n_nodes is 0, splits[i] is
\* the sentinel for every i < batchSize and every done_count and mutex entry
\* is 0; the histogram is all zero at the start of every launch; the host
\* writes done_count and mutex only in init.
C23_Reset ==
  /\ [](C23_AtBatchStart /\ C23_AtLaunchStart)
  /\ [][C23_HostStep]_vars

\* the search of a later batch starts after a launch in which two blocks per
\* pair arrived on done_count and a split was found
C23_Witness ==
  /\ BatchStart
  /\ node_start > 0
  /\ grid = 2
  /\ h_total_nodes > 1

\* the gain of the bin when the guards use the constructor's arguments
C24_Intended ==
  EntropyGain([nclasses |-> 2,
               min_impurity_decrease |-> F32FromInt(ev_in.min_impurity_decrease),
               min_samples_leaf |-> ev_in.min_samples_leaf],
              ev_in.lvals, ev_in.rvals, ev_in.len)

\* C24: the entropy objective stores the min_impurity_decrease and
\* min_samples_leaf it was constructed with, and its Gain vetoes a bin
\* (gain = -max) exactly when one side has fewer than min_samples_leaf rows
\* or the gain is not above min_impurity_decrease, for those arguments.
C24_EntropyGuards ==
  /\ ev_obj # NoObjective =>
       /\ ev_obj.min_samples_leaf = ev_in.min_samples_leaf
       /\ ev_obj.min_impurity_decrease
            = F32FromInt(ev_in.min_impurity_decrease)
  /\ (ev_in.kind = "entropy" /\ ev_gain # NoGain) =>
       ((ev_gain = NegFltMax) <=> (C24_Intended = NegFltMax))

\* the host reads *h_n_nodes in this step (lines 372, 374 and 377)
ReadsCount == pc \in {"s_resize", "s_copy"} /\ pc' # pc
\* the device-to-host copy of n_nodes is still on the stream
CountPending == \E i \in 1..Len(stream) : stream[i].dst = "h_n_nodes"
\* a copy from or to the storage of the vector is still on the stream
HostNodesPending == \E i \in 1..Len(stream) : TouchesHostNodes(stream[i])

C25_Step ==
  /\ ReadsCount => (~CountPending /\ h_n_nodes = n_nodes)
  /\ Len(h_nodes') # Len(h_nodes) => ~HostNodesPending

\* C25: the host reads *h_n_nodes only when the copy of n_nodes to the host
\* has completed, so it reads the count the batch's nodeSplitKernel left, and
\* whenever the host vector is resized no copy from or to its storage is
\* pending on the stream: the copies a doSplit enqueued have completed
\* before the next doSplit resizes.
C25_Ordering == [][C25_Step]_vars

\* a later doSplit is about to resize while the copies the previous one
\* enqueued wrote children into the vector
C25_Witness ==
  /\ pc = "s_resize"
  /\ node_start > 0
  /\ h_n_nodes > 0
  /\ Len(batches) >= 2

\* C26: the host vector never has fewer than h_total_nodes elements; when
\* doSplit returns it has at least h_total_nodes + new_nodes, so the batch
\* range [node_start, node_end) and the children range
\* [h_total_nodes, h_total_nodes + new_nodes) are inside it, and the two
\* ranges do not overlap.
C26_CopyBounds ==
  /\ (InTrain \/ pc = "done") => Len(h_nodes) >= h_total_nodes
  /\ pc = "ret" =>
       /\ Len(h_nodes) >= h_total_nodes + new_nodes
       /\ 0 <= node_start /\ node_end <= Len(h_nodes)
       /\ ChildrenOffset + new_nodes <= Len(h_nodes)
       /\ node_end <= ChildrenOffset

\* a batch other than the first returns with new children
C26_Witness ==
  /\ pc = "ret"
  /\ node_start > 0
  /\ new_nodes >= 2

====
